---- MODULE Spec2Model ----
(***************************************************************************)
(* Lighthouse: the Status Reconciler (foghorn controller), the Keeper      *)
(* action history and the webhook dispatcher, as state machines.           *)
(*                                                                         *)
(*   Spec         the foghorn controller: Job store, informer cache,       *)
(*                work queue, workers running syncHandler                  *)
(*   SpecHistory  the Keeper action history (History / recordLog)          *)
(*   SpecWebhook  the webhook HTTP handler with concurrent requests        *)
(*   SpecLive     Spec with the informer and the workers making progress   *)
(*   SpecLauncher launcher.Launch, called concurrently                     *)
(*   SpecDescription  reportStatus and the commit status description on    *)
(*                one activity record                                      *)
(*   SpecWebhookLive  SpecWebhook with the handlers making progress         *)
(*   SpecJobSpec  Launch's locals, GetEnvVars and ToLighthouseJob on one    *)
(*                job spec and one activity record                         *)
(*   SpecPager    ListReviews and ListAllPullRequestsForFullNameRepo       *)
(*                against a provider that answers page by page             *)
(*   SpecPagerLive  SpecPager with a running listing making progress       *)
(*   SpecHistoryCalls  the action history with concurrent Record calls     *)
(*                and Merge                                                *)
(***************************************************************************)
EXTENDS Integers, Sequences, FiniteSets, TLC

VARIABLES
    \* ---- foghorn controller ----
    store,        \* the LighthouseJob in the cluster store: [rv, status]
    cache,        \* the informer's cached object the lister returns: [rv, status]
    watch,        \* watch events (store versions) not yet delivered to the informer
    queue,        \* work queue: keys waiting for a worker, in order
    dirty,        \* work queue: keys added and not yet handed out
    processing,   \* work queue: keys a worker holds (between Get and Done)
    wpc,          \* per worker: "idle" or "write" (between reportStatus and the second lister Get)
    wjob,         \* per worker: jobCopy.Status
    wrep,         \* per worker: what reportStatus did in this reconcile
    scmStatus,    \* the commit status last posted to the SCM provider
    last,         \* the previous completed reconcile of the key
    engineWrites, \* activity records written so far
    gitKind,      \* $GIT_KIND
    limited,      \* the rate limiter of the queue counts failures of the key
    \* ---- Keeper action history ----
    hlimit,       \* History.logSizeLimit
    hlogs,        \* History.logs: pool key -> recordLog
    hclock,       \* the clock now() reads
    hadded,       \* per pool key, every record added so far, oldest first
    hsnap,        \* the map the last AllRecords call returned
    hcrashed,     \* add panicked
    \* ---- webhook dispatcher ----
    appMode,      \* the GitHub App secret directory is set
    gitToken,     \* $GIT_TOKEN
    coreConfig,   \* o.server.ConfigAgent.Config()
    pluginConfig, \* o.server.Plugins
    gitCreds,     \* the credentials held by o.gitClient
    clientAgent,  \* o.server.ClientAgent
    req,          \* per HTTP request: the handler's position, locals and response
    probe,        \* the last answer of GET /ready
    signals,      \* stop signals (SIGINT, SIGTERM) the process received
    serving,      \* the process runs and its HTTP server accepts requests
    \* ---- launcher ----
    lcall,        \* per Launch call: its position, locals and return value
    lbuild,       \* the build number the pipeline engine gave out last
    lcreated,     \* activity keys whose CRDs the engine client generated
    ljobs,        \* the Job records written to the store
    lapplied,     \* activity keys whose CRDs were applied to the cluster
    \* ---- commit status description ----
    dact,         \* the activity record handed to reportStatus
    dkind,        \* $GIT_KIND
    dout,         \* what reportStatus made of it
    \* ---- job specs and their conversions ----
    jspec,        \* the job spec handed to Launch and to GetEnvVars
    jrepo,        \* the scm.Repository handed to Launch
    jout,         \* what Launch computed before it calls the engine client
    jenv,         \* the map GetEnvVars returned
    jact,         \* the activity record handed to ToLighthouseJob
    jjob,         \* the Job ToLighthouseJob returned
    \* ---- paged listings of the SCM provider client ----
    list,         \* the locals of the running ListReviews or ListAllPullRequestsForFullNameRepo
    requests,     \* the List calls it has made on the provider: page, items, response
    returned,     \* what it returned
    \* ---- callers of the Keeper action history ----
    hcalls,       \* per goroutine: its Record call and the targets slice it passed
    hother,       \* the logs of the history handed to Merge
    hmerge        \* Merge: the records of other.AllRecords() not yet added

fvars == <<store, cache, watch, queue, dirty, processing, wpc, wjob, wrep,
           scmStatus, last, engineWrites, gitKind, limited>>

hvars == <<hlimit, hlogs, hclock, hadded, hsnap, hcrashed>>

wvars ==
    <<appMode, gitToken, coreConfig, pluginConfig, gitCreds, clientAgent, req, probe,
      signals, serving>>

lvars == <<lcall, lbuild, lcreated, ljobs, lapplied>>

dvars == <<dact, dkind, dout>>

jvars == <<jspec, jrepo, jout, jenv, jact, jjob>>

pvars == <<list, requests, returned>>

kvars == <<hcalls, hother, hmerge>>

vars == <<fvars, hvars, wvars, lvars, dvars, jvars, pvars, kvars>>

-----------------------------------------------------------------------------
(* Bounds *)

\* activity records the pipeline engine writes into the Job
MaxActivityUpdates == 2
\* Record calls made on the history
MaxRecords == 5
\* largest log size limit the history is created with
MaxLogSize == 3

-----------------------------------------------------------------------------
(* Status Reconciler: data *)

Workers == {1, 2}
JobKey == "jx/job1"
Keys == {JobKey}

NoActivity == [status |-> "nil"]

TriggeredState == "triggered"
PendingState == "pending"
RunningState == "running"
SuccessState == "success"
FailureState == "failure"
AbortedState == "aborted"
ErrorState == "error"

\* the states an activity record is written with
ActivityStates ==
    {PendingState, RunningState, SuccessState, FailureState, AbortedState, ErrorState}

\* activity.RunningStages(): names of the stages that are running
StageLists == {<<>>, <<"build">>}

GitURLs == {"", "https://github.com/org/repo"}

\* the activity records the pipeline engine writes
Activities ==
    {a \in [status : ActivityStates, stages : StageLists, gitURL : GitURLs,
            sha : {"abc"}, owner : {"org"}, repo : {"repo"}] :
        /\ a.stages # <<>> <=> a.status = RunningState
        /\ a.gitURL = "" => a.status = SuccessState}

\* scm.State and its String() names
ScmStates ==
    {"unknown", "pending", "running", "success", "failure", "canceled", "expected", "error"}

\* scm.ToState: the state a name stands for, unknown for any other text
ToState(s) == IF s \in ScmStates THEN s ELSE "unknown"

\* State.String()
StateString(st) == st

RECURSIVE JoinWithCommas(_, _)
JoinWithCommas(elems, sep) ==
    IF Len(elems) = 0 THEN ""
    ELSE IF Len(elems) = 1 THEN elems[1]
    ELSE elems[1] \o "," \o JoinWithCommas(Tail(elems), sep)

RECURSIVE Join(_, _)
\* strings.Join
Join(elems, sep) ==
    IF Len(elems) = 0 THEN ""
    ELSE IF Len(elems) = 1 THEN elems[1]
    ELSE elems[1] \o sep \o Join(Tail(elems), sep)

\* the switch of toScmStatusDescriptionRunningStages
StaticInfoAbortedIsFailure(status) ==
    CASE status = SuccessState ->
            [scmStatus |-> "success", description |-> "Pipeline successful", runningStages |-> ""]
      [] status \in {RunningState, PendingState} ->
            [scmStatus |-> "running", description |-> "Pipeline running", runningStages |-> ""]
      [] status \in {FailureState, AbortedState} ->
            [scmStatus |-> "failure", description |-> "Pipeline failed", runningStages |-> ""]
      [] OTHER ->
            [scmStatus |-> "unknown", description |-> "Pipeline in unknown state", runningStages |-> ""]

StaticInfo(status) ==
    CASE status = SuccessState ->
            [scmStatus |-> "success", description |-> "Pipeline successful", runningStages |-> ""]
      [] status \in {RunningState, PendingState} ->
            [scmStatus |-> "running", description |-> "Pipeline running", runningStages |-> ""]
      [] status = AbortedState ->
            [scmStatus |-> "error", description |-> "Error executing pipeline", runningStages |-> ""]
      [] status = FailureState ->
            [scmStatus |-> "failure", description |-> "Pipeline failed", runningStages |-> ""]
      [] OTHER ->
            [scmStatus |-> "unknown", description |-> "Pipeline in unknown state", runningStages |-> ""]

DescriptionLimit == 63
DescriptionHead == 59

TruncateNever(d) == d

\* toScmStatusDescriptionRunningStages: a description over the limit is cut
Truncate(d) ==
    IF Len(d) > DescriptionLimit THEN SubSeq(d, 1, DescriptionHead) \o "..." ELSE d

toScmStatusDescriptionRunningOnly(activity, kind) ==
    LET info == StaticInfo(activity.status)
        runningStages == activity.stages
    IN  IF Len(runningStages) > 0 /\ kind # "gitlab" /\ info.scmStatus = "running"
        THEN [info EXCEPT
                !.runningStages = Join(runningStages, ","),
                !.description =
                    Truncate("Pipeline running stage(s): " \o Join(runningStages, ", "))]
        ELSE info

toScmStatusDescriptionIgnoringGitKind(activity, kind) ==
    LET info == StaticInfo(activity.status)
        runningStages == activity.stages
    IN  IF Len(runningStages) > 0
        THEN [info EXCEPT
                !.runningStages = Join(runningStages, ","),
                !.description =
                    Truncate("Pipeline running stage(s): " \o Join(runningStages, ", "))]
        ELSE info

toScmStatusDescriptionRunningStages(activity, kind) ==
    LET info == StaticInfo(activity.status)
        runningStages == activity.stages
    IN  IF Len(runningStages) > 0 /\ kind # "gitlab"
        THEN [info EXCEPT
                !.runningStages = Join(runningStages, ","),
                !.description =
                    Truncate("Pipeline running stage(s): " \o Join(runningStages, ", "))]
        ELSE info

\* Job.Status
InitialStatus ==
    [state |-> PendingState, lastCommitSHA |-> "", lastReportState |-> "",
     description |-> "", reportURL |-> "", activity |-> NoActivity]

updateJobStatusForActivity(activity, status) ==
    [status EXCEPT !.state = activity.status, !.lastCommitSHA = activity.sha]

CannotReportUnknownOnly(activity, info) == info.scmStatus = "unknown"

\* reportStatus: the activity cannot be reported at all
CannotReport(activity, info) ==
    \/ activity.gitURL = ""
    \/ activity.sha = ""
    \/ activity.owner = ""
    \/ activity.repo = ""
    \/ info.scmStatus = "unknown"

AlreadyCompletedNever(lastReportState) == FALSE

\* reportStatus: "already completed - avoid reporting again"
AlreadyCompleted(lastReportState) ==
    ToState(lastReportState) \in {"failure", "error", "success", "canceled"}

NotChangedNever(status, info) == FALSE

\* reportStatus: state and running stages haven't changed
NotChanged(status, info) ==
    /\ ToState(status.lastReportState) = info.scmStatus
    /\ status.description = info.description

\* outcomes of the SCM calls of one reportStatus
ScmOutcomes == {"ok", "clientError", "statusError", "commentError"}

NoReport ==
    [posted |-> FALSE, commented |-> FALSE, external |-> FALSE, failed |-> FALSE,
     state |-> "", desc |-> ""]

\* $LIGHTHOUSE_REPORT_URL_BASE
ReportURLBase == "https://ci.example"

HasPrefix(str, prefix) ==
    Len(str) >= Len(prefix) /\ SubSeq(str, 1, Len(prefix)) = prefix

\* reportStatus: gitRepoStatus.Target, from defaultTargetURLTemplate
TargetURL(activity) ==
    LET targetURL == ReportURLBase \o "/teams/jx/projects/" \o activity.owner \o "/"
                         \o activity.repo \o "/master/1"
    IN  IF ReportURLBase # ""
           /\ (HasPrefix(targetURL, "http://") \/ HasPrefix(targetURL, "https://"))
        THEN targetURL
        ELSE ""

\* reportStatus: the activity is handed to the external plugins subscribed to
\* activity events, when there are any
externalPlugins(activity, status, kind, subscribed) ==
    LET info == toScmStatusDescriptionRunningStages(activity, kind)
    IN  /\ subscribed
        /\ ~CannotReport(activity, info)
        /\ ~AlreadyCompleted(status.lastReportState)
        /\ ~NotChanged(status, info)

\* reportStatus: what it does to the SCM, given the outcome of the SCM calls
reportEffect(activity, status, kind, out) ==
    LET info == toScmStatusDescriptionRunningStages(activity, kind)
    IN  IF \/ CannotReport(activity, info)
           \/ AlreadyCompleted(status.lastReportState)
           \/ NotChanged(status, info)
        THEN NoReport
        ELSE IF out \in {"clientError", "statusError"}
        THEN [NoReport EXCEPT !.failed = TRUE]
        ELSE [posted |-> TRUE, commented |-> (out = "ok"), external |-> FALSE,
              failed |-> FALSE, state |-> info.scmStatus, desc |-> info.description]

reportStatusAlwaysRecords(activity, status, kind, out) ==
    LET info == toScmStatusDescriptionRunningStages(activity, kind)
    IN  [status EXCEPT !.description = info.description,
                       !.lastReportState = StateString(info.scmStatus)]

\* reportStatus: what it records on the job
reportStatus(activity, status, kind, out) ==
    LET info == toScmStatusDescriptionRunningStages(activity, kind)
    IN  IF reportEffect(activity, status, kind, out).posted
        THEN [status EXCEPT !.reportURL = IF TargetURL(activity) # ""
                                              THEN TargetURL(activity) ELSE @,
                            !.description = info.description,
                            !.lastReportState = StateString(info.scmStatus)]
        ELSE status

-----------------------------------------------------------------------------
(* Status Reconciler: work queue *)

QueueAddWhileProcessing(q, k) ==
    IF k \in q.dirty THEN q
    ELSE [q EXCEPT !.dirty = @ \cup {k}, !.queue = Append(@, k)]

\* queue.AddRateLimited(key), as the state of the queue after the delay
QueueAdd(q, k) ==
    IF k \in q.dirty THEN q
    ELSE IF k \in q.processing THEN [q EXCEPT !.dirty = @ \cup {k}]
    ELSE [q EXCEPT !.dirty = @ \cup {k}, !.queue = Append(@, k)]

\* queue.Get()
QueueGet(q) ==
    [queue |-> Tail(q.queue), dirty |-> q.dirty \ {Head(q.queue)},
     processing |-> q.processing \cup {Head(q.queue)}]

\* queue.Done(key)
QueueDone(q, k) ==
    IF k \in q.dirty
    THEN [q EXCEPT !.processing = @ \ {k}, !.queue = Append(@, k)]
    ELSE [q EXCEPT !.processing = @ \ {k}]

Q == [queue |-> queue, dirty |-> dirty, processing |-> processing]

processNextWorkItemEndNoRequeue(q, k, err) == QueueDone(q, k)

\* processNextWorkItem once syncHandler has returned: AddRateLimited on an error,
\* and the deferred Done
processNextWorkItemEnd(q, k, err) == QueueDone(IF err THEN QueueAdd(q, k) ELSE q, k)

SetQ(q) ==
    /\ queue' = q.queue
    /\ dirty' = q.dirty
    /\ processing' = q.processing

\* queue.AddRateLimited(key) of the event handlers: the limiter counts the key
AddRateLimited(k) ==
    /\ SetQ(QueueAdd(Q, k))
    /\ limited' = TRUE

-----------------------------------------------------------------------------
(* Status Reconciler: actions *)

\* AddFunc: whether the key is added to the queue
AddFunc(key) == FALSE

UpdateFuncAlways(oldObj, newObj) == TRUE

\* UpdateFunc: whether the key is added to the queue
UpdateFunc(oldObj, newObj) == oldObj.rv # newObj.rv

\* DeleteFunc: whether the key is added to the queue
DeleteFunc(key) == TRUE

NoLast == [activity |-> NoActivity, posted |-> FALSE, commented |-> FALSE, stored |-> FALSE]

FoghornInit ==
    /\ store = [exists |-> TRUE, rv |-> 1, status |-> InitialStatus]
    /\ cache = [exists |-> FALSE, rv |-> 0, status |-> InitialStatus]
    /\ watch = <<store>>
    /\ queue = <<>>
    /\ dirty = {}
    /\ processing = {}
    /\ wpc = [w \in Workers |-> "idle"]
    /\ wjob = [w \in Workers |-> InitialStatus]
    /\ wrep = [w \in Workers |-> NoReport]
    /\ scmStatus = [state |-> "", desc |-> ""]
    /\ last = NoLast
    /\ engineWrites = 0
    /\ gitKind \in {"github", "gitlab"}
    /\ limited = FALSE

\* the pipeline engine writes a new activity record into the Job's status
ActivityUpdate(a) ==
    /\ store.exists
    /\ engineWrites < MaxActivityUpdates
    /\ engineWrites' = engineWrites + 1
    /\ a # store.status.activity
    /\ store' = [store EXCEPT !.rv = @ + 1, !.status.activity = a]
    /\ watch' = Append(watch, store')
    /\ UNCHANGED <<cache, queue, dirty, processing, wpc, wjob, wrep, scmStatus, last,
                   gitKind, limited>>

\* the Job is deleted from the cluster
JobDelete ==
    /\ store.exists
    /\ store' = [store EXCEPT !.exists = FALSE]
    /\ watch' = Append(watch, store')
    /\ UNCHANGED <<cache, queue, dirty, processing, wpc, wjob, wrep, scmStatus, last,
                   engineWrites, gitKind, limited>>

\* the informer receives the first event of the Job, from its list of the Jobs
\* that exist: AddFunc
InformerAdd ==
    /\ watch # <<>>
    /\ Head(watch).exists
    /\ ~cache.exists
    /\ cache' = Head(watch)
    /\ watch' = Tail(watch)
    /\ IF AddFunc(JobKey) THEN AddRateLimited(JobKey)
       ELSE UNCHANGED <<queue, dirty, processing, limited>>
    /\ UNCHANGED <<store, wpc, wjob, wrep, scmStatus, last, engineWrites, gitKind>>

\* the informer receives the next watch event, an update: UpdateFunc
InformerUpdate ==
    /\ watch # <<>>
    /\ Head(watch).exists
    /\ cache.exists
    /\ cache' = Head(watch)
    /\ watch' = Tail(watch)
    /\ IF UpdateFunc(cache, Head(watch)) THEN AddRateLimited(JobKey)
       ELSE UNCHANGED <<queue, dirty, processing, limited>>
    /\ UNCHANGED <<store, wpc, wjob, wrep, scmStatus, last, engineWrites, gitKind>>

\* the informer resyncs: UpdateFunc with the cached object as the old and as the
\* new one
InformerResync ==
    /\ cache.exists
    /\ IF UpdateFunc(cache, cache) THEN AddRateLimited(JobKey)
       ELSE UNCHANGED <<queue, dirty, processing, limited>>
    /\ UNCHANGED <<store, cache, watch, wpc, wjob, wrep, scmStatus, last, engineWrites,
                   gitKind>>

\* the informer receives the next watch event, a deletion: DeleteFunc
InformerDelete ==
    /\ watch # <<>>
    /\ ~Head(watch).exists
    /\ cache' = Head(watch)
    /\ watch' = Tail(watch)
    /\ IF DeleteFunc(JobKey) THEN AddRateLimited(JobKey)
       ELSE UNCHANGED <<queue, dirty, processing, limited>>
    /\ UNCHANGED <<store, wpc, wjob, wrep, scmStatus, last, engineWrites, gitKind>>

\* processNextWorkItem + syncHandler on a key whose job no longer exists or has no
\* activity: nothing to do
SyncNothing(w) ==
    /\ wpc[w] = "idle"
    /\ queue # <<>>
    /\ ~cache.exists \/ cache.status.activity = NoActivity
    /\ SetQ(processNextWorkItemEnd(QueueGet(Q), Head(queue), FALSE))
    /\ limited' = FALSE
    /\ UNCHANGED <<store, cache, watch, wpc, wjob, wrep, scmStatus, last, engineWrites,
                   gitKind>>

\* processNextWorkItem + syncHandler up to the end of reportStatus
SyncReport(w, out, subscribed) ==
    /\ wpc[w] = "idle"
    /\ queue # <<>>
    /\ cache.exists
    /\ cache.status.activity # NoActivity
    /\ LET activityRecord == cache.status.activity
           jobCopy == updateJobStatusForActivity(activityRecord, cache.status)
           rep == reportEffect(activityRecord, jobCopy, gitKind, out)
       IN  /\ wjob' = [wjob EXCEPT ![w] = reportStatus(activityRecord, jobCopy, gitKind, out)]
           /\ wrep' = [wrep EXCEPT ![w] =
                          [rep EXCEPT !.external =
                              externalPlugins(activityRecord, jobCopy, gitKind, subscribed)]]
           /\ scmStatus' = IF rep.posted THEN [state |-> rep.state, desc |-> rep.desc]
                           ELSE scmStatus
    /\ wpc' = [wpc EXCEPT ![w] = "write"]
    /\ SetQ(QueueGet(Q))
    /\ UNCHANGED <<store, cache, watch, last, engineWrites, gitKind, limited>>

\* lighthouseJobs.UpdateStatus: PUT of the object on the status subresource; the
\* server refuses an object whose resourceVersion is not the stored one
UpdateStatus(job, st, ok) ==
    IF ok /\ st.exists /\ job.rv = st.rv
    THEN [st EXCEPT !.rv = @ + 1, !.status = job.status]
    ELSE st

\* syncHandler from the second lister Get on, and the end of processNextWorkItem
SyncWrite(w, ok) ==
    /\ wpc[w] = "write"
    /\ LET currentJob == cache
           differs == currentJob.exists /\ currentJob.status # wjob[w]
           written == [currentJob EXCEPT !.status = wjob[w]]
           newStore == IF differs THEN UpdateStatus(written, store, ok) ELSE store
           err == ~currentJob.exists \/ (differs /\ newStore = store)
       IN  /\ cache' = IF differs THEN written ELSE cache
           /\ store' = newStore
           /\ watch' = IF newStore # store THEN Append(watch, newStore) ELSE watch
           /\ SetQ(processNextWorkItemEnd(Q, JobKey, err))
           /\ limited' = err
           /\ last' = [activity |-> wjob[w].activity, posted |-> wrep[w].posted,
                       commented |-> wrep[w].commented, stored |-> ~err]
    /\ wpc' = [wpc EXCEPT ![w] = "idle"]
    /\ wjob' = [wjob EXCEPT ![w] = InitialStatus]
    /\ wrep' = [wrep EXCEPT ![w] = NoReport]
    /\ UNCHANGED <<scmStatus, engineWrites, gitKind>>

FoghornNext ==
    \/ \E a \in Activities : ActivityUpdate(a)
    \/ JobDelete
    \/ InformerAdd
    \/ InformerUpdate
    \/ InformerResync
    \/ InformerDelete
    \/ \E w \in Workers : SyncNothing(w)
    \/ \E w \in Workers, out \in ScmOutcomes, subscribed \in BOOLEAN :
          SyncReport(w, out, subscribed)
    \/ \E w \in Workers, ok \in BOOLEAN : SyncWrite(w, ok)

\* the steps of the controller itself: the informer and the workers, which run
\* for as long as the controller does
ControllerNext ==
    \/ InformerAdd
    \/ InformerUpdate
    \/ InformerDelete
    \/ \E w \in Workers : SyncNothing(w)
    \/ \E w \in Workers, out \in ScmOutcomes, subscribed \in BOOLEAN :
          SyncReport(w, out, subscribed)
    \/ \E w \in Workers, ok \in BOOLEAN : SyncWrite(w, ok)

-----------------------------------------------------------------------------
(* Keeper action history *)

PoolKeys == {"org/repo:master", "org/repo:dev"}
Actions == {"TRIGGER", "MERGE"}

NoCache == [set |-> FALSE, slice |-> <<>>]

\* a pool key without a log
NoLog == [present |-> FALSE, buff |-> <<>>, head |-> -1, limit |-> 0, cachedSlice |-> NoCache]

newRecordLog(sizeLimit) ==
    [present |-> TRUE, buff |-> <<>>, head |-> -1, limit |-> sizeLimit, cachedSlice |-> NoCache]

addAlwaysAppend(rl, rec) ==
    [rl EXCEPT !.cachedSlice = NoCache,
               !.head = (rl.head + 1) % rl.limit,
               !.buff = Append(rl.buff, rec)]

\* recordLog.add, for a limit that is not 0
add(rl, rec) ==
    LET head == (rl.head + 1) % rl.limit
    IN  [rl EXCEPT !.cachedSlice = NoCache,
                   !.head = head,
                   !.buff = IF Len(rl.buff) < rl.limit
                            THEN Append(rl.buff, rec)
                            ELSE [rl.buff EXCEPT ![head + 1] = rec]]

RECURSIVE collect(_, _, _)
\* the loop of toSlice: res, after the passes i, i+1, ... len(buff)-1
collect(rl, i, res) ==
    IF i >= Len(rl.buff) THEN res
    ELSE collect(rl, i + 1, Append(res, rl.buff[((rl.limit + rl.head - i) % rl.limit) + 1]))

toSliceOldestFirst(rl) ==
    IF rl.cachedSlice.set THEN rl.cachedSlice.slice ELSE rl.buff

\* recordLog.toSlice: the slice it returns
toSlice(rl) ==
    IF rl.cachedSlice.set THEN rl.cachedSlice.slice ELSE collect(rl, 0, <<>>)

HistoryIdle ==
    /\ hlimit = 0
    /\ hlogs = [k \in PoolKeys |-> NoLog]
    /\ hclock = 0
    /\ hadded = [k \in PoolKeys |-> <<>>]
    /\ hsnap = [k \in PoolKeys |-> <<>>]
    /\ hcrashed = FALSE

\* history.New(maxRecordsPerKey, path)
HistoryInit ==
    /\ hlimit \in 0..MaxLogSize
    /\ hlogs = [k \in PoolKeys |-> NoLog]
    /\ hclock = 0
    /\ hadded = [k \in PoolKeys |-> <<>>]
    /\ hsnap = [k \in PoolKeys |-> <<>>]
    /\ hcrashed = FALSE

\* History.Record / addRecord on a history whose log size limit is not 0
Record(poolKey, action) ==
    /\ ~hcrashed
    /\ hlimit # 0
    /\ hclock < MaxRecords
    /\ hclock' = hclock + 1
    /\ LET rec == [time |-> hclock', action |-> action]
           rl == IF hlogs[poolKey].present THEN hlogs[poolKey] ELSE newRecordLog(hlimit)
       IN  /\ hlogs' = [hlogs EXCEPT ![poolKey] = add(rl, rec)]
           /\ hadded' = [hadded EXCEPT ![poolKey] = Append(@, rec)]
    /\ UNCHANGED <<hlimit, hsnap, hcrashed>>

\* History.Record / addRecord with log size limit 0: add divides by zero
RecordPanics(poolKey) ==
    /\ ~hcrashed
    /\ hlimit = 0
    /\ hclock < MaxRecords
    /\ hclock' = hclock + 1
    /\ hlogs' = [hlogs EXCEPT ![poolKey] =
                    IF hlogs[poolKey].present THEN hlogs[poolKey] ELSE newRecordLog(hlimit)]
    /\ hcrashed' = TRUE
    /\ UNCHANGED <<hlimit, hadded, hsnap>>

\* History.AllRecords
AllRecords ==
    /\ ~hcrashed
    /\ hsnap' = [k \in PoolKeys |-> IF hlogs[k].present THEN toSlice(hlogs[k]) ELSE <<>>]
    /\ hlogs' = [k \in PoolKeys |->
                    IF hlogs[k].present
                    THEN [hlogs[k] EXCEPT !.cachedSlice = [set |-> TRUE, slice |-> toSlice(hlogs[k])]]
                    ELSE hlogs[k]]
    /\ UNCHANGED <<hlimit, hclock, hadded, hcrashed>>

HistoryNext ==
    \/ \E k \in PoolKeys, a \in Actions : Record(k, a)
    \/ \E k \in PoolKeys : RecordPanics(k)
    \/ AllRecords

-----------------------------------------------------------------------------
(* Keeper action history: concurrent callers and Merge *)

\* Record calls the callers make
MaxCalls == 3

\* the goroutines that call Record
Callers == {1, 2}

\* the numbers of the pulls in the targets a caller passes
TargetLists == {<<1, 2>>, <<2, 1>>}

RECURSIVE Insert(_, _)
Insert(sorted, n) ==
    IF sorted = <<>> \/ n < Head(sorted) THEN <<n>> \o sorted
    ELSE <<Head(sorted)>> \o Insert(Tail(sorted), n)

RECURSIVE SortByNum(_)
\* sort.Sort(v1alpha1.ByNum(targets)): by pull number, in place
SortByNum(targets) ==
    IF targets = <<>> THEN <<>>
    ELSE Insert(SortByNum(SubSeq(targets, 1, Len(targets) - 1)), targets[Len(targets)])

NoCall == [pc |-> "idle", poolKey |-> "", passed |-> <<>>, targets |-> <<>>,
           rec |-> [time |-> 0]]

\* History.addRecord on a history whose log size limit is not 0
addRecord(logs, limit, poolKey, rec) ==
    [logs EXCEPT ![poolKey] = add(IF @.present THEN @ ELSE newRecordLog(limit), rec)]

RECURSIVE OtherLogs(_, _)
\* the logs of a history of limit MaxLogSize with n records under one pool key
OtherLogs(poolKey, n) ==
    IF n = 0 THEN [k \in PoolKeys |-> NoLog]
    ELSE addRecord(OtherLogs(poolKey, n - 1), MaxLogSize, poolKey,
                   [time |-> n, action |-> "MERGE", target |-> <<>>, from |-> "other"])

NoMerge == [started |-> FALSE, rest |-> [k \in PoolKeys |-> <<>>]]

CallersIdle ==
    /\ hcalls = [g \in Callers |-> NoCall]
    /\ hother = [k \in PoolKeys |-> NoLog]
    /\ hmerge = NoMerge

CallersInit ==
    /\ hcalls = [g \in Callers |-> NoCall]
    /\ hother \in {OtherLogs("org/repo:master", n) : n \in 0..MaxLogSize}
    /\ hmerge = NoMerge

\* History.Record up to the call of addRecord: the time is read and the caller's
\* slice is sorted
RecordNow(g, poolKey, targets) ==
    /\ ~hcrashed
    /\ hcalls[g].pc # "sorted"
    /\ hclock < MaxCalls
    /\ hclock' = hclock + 1
    /\ hcalls' = [hcalls EXCEPT ![g] =
                     [pc |-> "sorted", poolKey |-> poolKey, passed |-> targets,
                      targets |-> SortByNum(targets),
                      rec |-> [time |-> hclock', action |-> "TRIGGER",
                               target |-> SortByNum(targets), from |-> "h"]]]
    /\ UNCHANGED <<hlimit, hlogs, hadded, hsnap, hcrashed, hother, hmerge>>

\* h.addRecord(poolKey, rec) under the lock; add divides by a limit of 0
AddRecord(poolKey, rec) ==
    IF hlimit = 0
    THEN /\ hlogs' = [hlogs EXCEPT ![poolKey] =
                         IF @.present THEN @ ELSE newRecordLog(hlimit)]
         /\ hcrashed' = TRUE
         /\ hadded' = hadded
    ELSE /\ hlogs' = addRecord(hlogs, hlimit, poolKey, rec)
         /\ hcrashed' = hcrashed
         /\ hadded' = [hadded EXCEPT ![poolKey] = Append(@, rec)]

\* History.Record: the call of addRecord and the return
RecordAdd(g) ==
    /\ ~hcrashed
    /\ hcalls[g].pc = "sorted"
    /\ AddRecord(hcalls[g].poolKey, hcalls[g].rec)
    /\ hcalls' = [hcalls EXCEPT ![g] = [NoCall EXCEPT !.pc = "done", !.passed = hcalls[g].passed,
                                                      !.targets = hcalls[g].targets]]
    /\ UNCHANGED <<hlimit, hclock, hsnap, hother, hmerge>>

\* History.Merge: other.AllRecords()
Merge ==
    /\ ~hcrashed
    /\ ~hmerge.started
    /\ hmerge' = [started |-> TRUE,
                  rest |-> [k \in PoolKeys |->
                              IF hother[k].present THEN toSlice(hother[k]) ELSE <<>>]]
    /\ hother' = [k \in PoolKeys |->
                     IF hother[k].present
                     THEN [hother[k] EXCEPT
                              !.cachedSlice = [set |-> TRUE, slice |-> toSlice(hother[k])]]
                     ELSE hother[k]]
    /\ UNCHANGED <<hvars, hcalls>>

\* History.Merge: one pass of the inner loop, h.addRecord(key, log)
MergeAdd(key) ==
    /\ ~hcrashed
    /\ hmerge.rest[key] # <<>>
    /\ AddRecord(key, Head(hmerge.rest[key]))
    /\ hmerge' = [hmerge EXCEPT !.rest[key] = Tail(@)]
    /\ UNCHANGED <<hlimit, hclock, hsnap, hcalls, hother>>

CallersNext ==
    \/ \E g \in Callers, k \in PoolKeys, t \in TargetLists : RecordNow(g, k, t)
    \/ \E g \in Callers : RecordAdd(g)
    \/ AllRecords /\ UNCHANGED kvars
    \/ Merge
    \/ \E k \in PoolKeys : MergeAdd(k)

-----------------------------------------------------------------------------
(* Webhook dispatcher *)

\* HTTP requests handled, each by its own goroutine
Requests == {1, 2}

\* repositories webhooks come from: full name -> owner
Repos == {"org/repo", "other/unknown", "ghost/repo"}

Owner(repo) ==
    CASE repo = "org/repo" -> "org"
      [] repo = "other/unknown" -> "other"
      [] OTHER -> "ghost"

\* owners with a token in the GitHub App secret directory
OwnersWithToken == {"org", "other"}

\* tokenFinder.FindToken(owner): "" stands for the error
FindToken(owner) == IF owner \in OwnersWithToken THEN "token-" \o owner ELSE ""

\* webhook kinds: ping, two of the kinds with a handler, and a kind without
HookKinds == {"ping", "push", "pull_request", "deployment"}

HandledKinds == {"push", "pull_request"}

\* the output ProcessWebHook returns for a kind with a handler
Processed(kind) == IF kind = "push" THEN "processed push hook" ELSE "processed PR hook"

NoConfig == [loaded |-> FALSE, repos |-> {}]

\* the texts of the config.yaml entry: empty, not YAML, and a config
ConfigTexts == {"", "presubmits: [", "presubmits: org/repo"}

\* config.LoadYAMLConfig: the repositories with presubmits or postsubmits
LoadYAMLConfig(text) ==
    IF text = "presubmits: org/repo"
    THEN [err |-> FALSE, config |-> [loaded |-> TRUE, repos |-> {"org/repo"}]]
    ELSE [err |-> TRUE, config |-> NoConfig]

\* config.yaml: the configs the texts parse to
CoreConfigs == {LoadYAMLConfig(t).config : t \in {u \in ConfigTexts : ~LoadYAMLConfig(u).err}}

\* the texts of the plugins.yaml entry: empty, not YAML, and two configs
PluginTexts == {"", "external_plugins: [", "external_plugins: {}",
                "external_plugins: org/repo, other/unknown"}

\* pluginAgent.LoadYAMLConfig: the repositories with an external plugin subscribed
\* to every kind
LoadPluginsYAMLConfig(text) ==
    CASE text = "external_plugins: {}" ->
           [err |-> FALSE, config |-> [loaded |-> TRUE, repos |-> {}]]
      [] text = "external_plugins: org/repo, other/unknown" ->
           [err |-> FALSE,
            config |-> [loaded |-> TRUE, repos |-> {"org/repo", "other/unknown"}]]
      [] OTHER -> [err |-> TRUE, config |-> NoConfig]

\* plugins.yaml: the configs the texts parse to
PluginConfigs ==
    {LoadPluginsYAMLConfig(t).config : t \in {u \in PluginTexts : ~LoadPluginsYAMLConfig(u).err}}

NoAgent == [set |-> FALSE, token |-> "", clients |-> "none"]

NoCreds == [user |-> "", token |-> ""]

NoHandler == [ran |-> FALSE, agent |-> NoAgent, git |-> NoCreds]

NewRequest ==
    [pc |-> "new", repo |-> "", kind |-> "", token |-> "", clients |-> "none",
     failed |-> "", code |-> 0, body |-> <<>>, aborted |-> FALSE,
     handler |-> NoHandler, external |-> 0, notConfigured |-> FALSE]

\* responseHTTPError / http.Error: the status line is written once, the text is appended
responseHTTPError(r, statusCode, response) ==
    [r EXCEPT !.code = IF @ = 0 THEN statusCode ELSE @, !.body = Append(@, response)]

\* w.Write(output): a first write sends status 200
Write(r, output) ==
    [r EXCEPT !.code = IF @ = 0 THEN 200 ELSE @,
              !.body = IF output = "" THEN @ ELSE Append(@, output)]

ExternalPluginsForEventAlways(plugins, kind, repo) == TRUE

\* util.ExternalPluginsForEvent(o.server.Plugins, kind, fullName) is not empty
ExternalPluginsForEvent(plugins, kind, repo) == repo \in plugins.repos

\* what the plugin handlers of a request work with: the agent and the git client
\* of the server at the time they run
HandlerContext == [ran |-> TRUE, agent |-> clientAgent, git |-> gitCreds]

\* no GET /ready answered yet
NoProbe == [code |-> 0, core |-> FALSE, plugins |-> FALSE]

WebhookIdle ==
    /\ appMode = FALSE
    /\ gitToken = ""
    /\ coreConfig = NoConfig
    /\ pluginConfig = NoConfig
    /\ gitCreds = NoCreds
    /\ clientAgent = NoAgent
    /\ req = [r \in Requests |-> NewRequest]
    /\ probe = NoProbe
    /\ signals = 0
    /\ serving = FALSE

\* Options.Run: the server listens, no config map has been read yet
WebhookInit ==
    /\ appMode \in BOOLEAN
    /\ gitToken \in {"", "token-bot"}
    /\ appMode => gitToken = ""
    /\ coreConfig = NoConfig
    /\ pluginConfig = NoConfig
    /\ gitCreds = NoCreds
    /\ clientAgent = NoAgent
    /\ req = [r \in Requests |-> NewRequest]
    /\ probe = NoProbe
    /\ signals = 0
    /\ serving = TRUE

OnConfigYamlChangeAnyText(text) ==
    /\ coreConfig' = LoadYAMLConfig(text).config
    /\ UNCHANGED <<probe, appMode, gitToken, pluginConfig, gitCreds, clientAgent, req>>

\* onConfigYamlChange: an empty text and a text that does not parse are dropped,
\* configAgent.Set makes the parsed config the active one
OnConfigYamlChange(text) ==
    /\ coreConfig' = IF text # "" /\ ~LoadYAMLConfig(text).err
                     THEN LoadYAMLConfig(text).config
                     ELSE coreConfig
    /\ UNCHANGED <<probe, appMode, gitToken, pluginConfig, gitCreds, clientAgent, req>>

\* onPluginsYamlChange: an empty text and a text that does not parse are dropped,
\* pluginAgent.Set makes the parsed config the active one
OnPluginsYamlChange(text) ==
    /\ pluginConfig' = IF text # "" /\ ~LoadPluginsYAMLConfig(text).err
                       THEN LoadPluginsYAMLConfig(text).config
                       ELSE pluginConfig
    /\ UNCHANGED <<probe, appMode, gitToken, coreConfig, gitCreds, clientAgent, req>>

\* handleWebHookRequests, a request that is not a POST
HookNotPost(r) ==
    /\ req[r].pc = "new"
    /\ req' = [req EXCEPT ![r] = [Write(@, "") EXCEPT !.pc = "done"]]
    /\ UNCHANGED <<probe, appMode, gitToken, coreConfig, pluginConfig, gitCreds, clientAgent>>

\* the texts of the failures: the body cannot be read or closed, no SCM client or
\* the parse fails (the same text), no webhook comes out of the parse
ParseFailures == {"Read Body", "Read Close", "Failed to parse webhook",
                  "No webhook could be parsed"}

\* handleWebHookRequests, a POST whose body cannot be read or parsed
HookParseFails(r, why) ==
    /\ req[r].pc = "new"
    /\ req' = [req EXCEPT ![r] =
                  [responseHTTPError(@, 500, "500 Internal Server Error: " \o why)
                      EXCEPT !.failed = "parse", !.pc = "done"]]
    /\ UNCHANGED <<probe, appMode, gitToken, coreConfig, pluginConfig, gitCreds, clientAgent>>

\* handleWebHookRequests, a POST: body read, webhook parsed
HookParse(r, repo, kind) ==
    /\ req[r].pc = "new"
    /\ req' = [req EXCEPT ![r] = [@ EXCEPT !.repo = repo, !.kind = kind, !.pc = "parsed"]]
    /\ UNCHANGED <<probe, appMode, gitToken, coreConfig, pluginConfig, gitCreds, clientAgent>>

\* outcomes of clients.GetAPIClients(): the clients, or an error without clients
ClientOutcomes == {"ok", "error"}

\* handleWebHookRequests: the token, the cluster clients, o.gitClient.SetCredentials
HookCredentials(r, clients) ==
    /\ req[r].pc = "parsed"
    /\ LET token == IF appMode THEN FindToken(Owner(req[r].repo)) ELSE gitToken
           user == IF appMode THEN "x-access-token" ELSE "jenkins-x-bot"
           why == IF appMode THEN "failed to read owner token" ELSE "no scm token specified"
       IN  IF token = ""
           THEN /\ req' = [req EXCEPT ![r] =
                             [responseHTTPError(@, 500, "500 Internal Server Error: " \o why)
                                 EXCEPT !.failed = "credentials", !.pc = "done"]]
                /\ UNCHANGED gitCreds
           ELSE /\ req' = [req EXCEPT ![r] =
                             [(IF clients = "error"
                               THEN [responseHTTPError(@, 500, "500 Internal Server Error: ")
                                        EXCEPT !.failed = "clients"]
                               ELSE @)
                                 EXCEPT !.token = token, !.clients = clients, !.pc = "credentials"]]
                /\ gitCreds' = [user |-> user, token |-> token]
    /\ UNCHANGED <<probe, appMode, gitToken, coreConfig, pluginConfig, clientAgent>>

\* handleWebHookRequests: o.server.ClientAgent = &plugins.ClientAgent{...}; taking
\* the job client out of a missing lighthouse client panics, and the server drops
\* the connection of a handler that panics
HookSetAgent(r) ==
    /\ req[r].pc = "credentials"
    /\ IF req[r].clients = "error"
       THEN /\ req' = [req EXCEPT ![r] = [@ EXCEPT !.aborted = TRUE, !.pc = "done"]]
            /\ UNCHANGED clientAgent
       ELSE /\ req' = [req EXCEPT ![r] = [@ EXCEPT !.pc = "agent"]]
            /\ clientAgent' = [set |-> TRUE, token |-> req[r].token, clients |-> req[r].clients]
    /\ UNCHANGED <<probe, appMode, gitToken, coreConfig, pluginConfig, gitCreds>>

NotConfiguredAlsoPing(r) ==
    /\ appMode
    /\ coreConfig.loaded
    /\ r.repo \notin coreConfig.repos

\* ProcessWebHook: the repository of the webhook is one the config does not know
NotConfigured(r) ==
    /\ r.kind # "ping"
    /\ appMode
    /\ coreConfig.loaded
    /\ r.repo \notin coreConfig.repos

\* ProcessWebHook: [the request after it, the output]
ProcessWebHook(r) ==
    CASE r.kind = "ping" /\ ~NotConfigured(r) -> <<r, "pong from lighthouse">>
      [] NotConfigured(r) ->
            <<[responseHTTPError(r, 500,
                   "500 Internal Server Error: repository not configured: " \o r.repo)
                  EXCEPT !.notConfigured = TRUE], "">>
      [] r.kind \in HandledKinds /\ ~NotConfigured(r) ->
            <<[r EXCEPT !.handler = HandlerContext], Processed(r.kind)>>
      [] OTHER -> <<r, "unknown hook " \o r.kind>>

\* handleWebHookRequests from ProcessWebHook on: the internal plugins, the external
\* plugins, the response
HookProcess(r) ==
    /\ req[r].pc = "agent"
    /\ LET done == ProcessWebHook(req[r])
           external == ExternalPluginsForEvent(pluginConfig, req[r].kind, req[r].repo)
       IN  req' = [req EXCEPT ![r] =
                      [Write(done[1], done[2])
                          EXCEPT !.external = IF external THEN @ + 1 ELSE @,
                                 !.pc = "done"]]
    /\ UNCHANGED <<probe, appMode, gitToken, coreConfig, pluginConfig, gitCreds, clientAgent>>

\* isReady
isReady == TRUE

\* ready: GET /ready, answered with 204 or 503; the answer is kept with the configs
\* that were loaded when it was given
Ready ==
    /\ probe' = [code |-> IF isReady THEN 204 ELSE 503,
                 core |-> coreConfig.loaded, plugins |-> pluginConfig.loaded]
    /\ probe' # probe
    /\ UNCHANGED <<appMode, gitToken, coreConfig, pluginConfig, gitCreds, clientAgent, req>>

\* stopper: the first signal closes the stop channel of the config map watcher,
\* the second one ends the process with os.Exit(1); signal.Notify takes the
\* signals away from the runtime, which would end the process on the first
StopSignal ==
    /\ serving
    /\ signals' = signals + 1
    /\ serving' = (signals = 0)
    /\ UNCHANGED <<probe, appMode, gitToken, coreConfig, pluginConfig, gitCreds,
                   clientAgent, req>>

\* the config map watcher, which runs until the stop channel is closed
WatcherNext ==
    /\ serving
    /\ signals = 0
    /\ \/ \E text \in ConfigTexts : OnConfigYamlChange(text)
       \/ \E text \in PluginTexts : OnPluginsYamlChange(text)
    /\ UNCHANGED <<signals, serving>>

\* http.ListenAndServe: the handlers of the mux, one goroutine for each request
ServeNext ==
    /\ serving
    /\ \/ Ready
       \/ \E r \in Requests : HookNotPost(r)
       \/ \E r \in Requests, why \in ParseFailures : HookParseFails(r, why)
       \/ \E r \in Requests, repo \in Repos, kind \in HookKinds : HookParse(r, repo, kind)
       \/ \E r \in Requests, clients \in ClientOutcomes : HookCredentials(r, clients)
       \/ \E r \in Requests : HookSetAgent(r)
       \/ \E r \in Requests : HookProcess(r)
    /\ UNCHANGED <<signals, serving>>

WebhookNext ==
    \/ WatcherNext
    \/ ServeNext
    \/ StopSignal

-----------------------------------------------------------------------------
(* Launcher *)

\* Launch calls made, each on the goroutine of the handler that triggers the job
Launches == {1, 2}

\* the longest pull list of a job spec
MaxPulls == 2

Digits == <<"0", "1", "2", "3", "4", "5", "6", "7", "8", "9">>

\* strconv.Itoa on a number that is not negative
RECURSIVE Itoa(_)
Itoa(n) == IF n < 10 THEN Digits[n + 1] ELSE Itoa(n \div 10) \o Digits[(n % 10) + 1]

\* v1alpha1.Pull: the number and the head commit of a pull request
Pulls ==
    {[number |-> 1, sha |-> "5678"], [number |-> 2, sha |-> "0efg"],
     [number |-> 12, sha |-> "5678"]}

\* Refs.Pulls: pull requests in the order they are merged, none twice
PullLists ==
    {s \in UNION {[1..n -> Pulls] : n \in 0..MaxPulls} :
        \A i, j \in 1..Len(s) : i # j => s[i].number # s[j].number}

BaseRefs == {"master", "release", ""}

BaseSHAs == {"1234abcd", "d0"}

\* the runtime panic of a read through a nil pointer
NilDereference == "invalid memory address or nil pointer dereference"

\* spec.Refs == nil
NoRefs ==
    [nil |-> TRUE, org |-> "", repo |-> "", baseRef |-> "", baseSHA |-> "",
     pulls |-> <<>>]

\* spec.Refs: &v1alpha1.Refs{...}
Refs(baseRef, baseSHA, pulls) ==
    [nil |-> FALSE, org |-> "some-org", repo |-> "some-repo", baseRef |-> baseRef,
     baseSHA |-> baseSHA, pulls |-> pulls]

AllRefs ==
    {NoRefs} \cup {Refs(b, h, ps) : b \in BaseRefs, h \in BaseSHAs, ps \in PullLists}

JobTypes == {"periodic", "postsubmit", "presubmit", "batch"}

\* spec.Job
JobName(type) ==
    CASE type = "periodic" -> "some-job"
      [] type = "postsubmit" -> "some-release-job"
      [] OTHER -> "some-pr-job"

JobSpecOf(type, refs) == [type |-> type, job |-> JobName(type), refs |-> refs]

\* the job specs the triggers, the merge pool and the periodic configuration
\* make: pulls only on presubmit and batch jobs, refs on all but periodic jobs
AllJobSpecs ==
    {spec \in {JobSpecOf(type, refs) : type \in JobTypes, refs \in AllRefs} :
        /\ spec.refs.nil => spec.type = "periodic"
        /\ spec.type \in {"periodic", "postsubmit"} => spec.refs.pulls = <<>>
        /\ spec.type = "batch" => Len(spec.refs.pulls) >= 2}

\* job specs handed to Launch: the four of the GetEnvVars test
JobSpecs ==
    {JobSpecOf("periodic", NoRefs),
     JobSpecOf("postsubmit", Refs("master", "1234abcd", <<>>)),
     JobSpecOf("presubmit", Refs("master", "1234abcd", <<[number |-> 1, sha |-> "5678"]>>)),
     JobSpecOf("batch", Refs("master", "1234abcd",
                             <<[number |-> 1, sha |-> "5678"],
                               [number |-> 2, sha |-> "0efg"]>>))}

\* Launch: the pipeline kind
PipelineKind(spec) == IF Len(spec.refs.pulls) > 0 THEN "pullrequest" ELSE "release"

getBranchBaseRefOnly(spec) == spec.refs.baseRef

\* getBranch
getBranch(spec) ==
    IF spec.type = "postsubmit" THEN spec.refs.baseRef
    ELSE IF spec.type = "batch" THEN "batch"
    ELSE IF Len(spec.refs.pulls) > 0 THEN "PR-" \o Itoa(spec.refs.pulls[1].number)
    ELSE spec.refs.baseRef

\* Launch: the branch, with its two fallbacks
LaunchBranch(spec, repository) ==
    LET branch == getBranch(spec)
    IN  IF branch # "" THEN branch
        ELSE IF repository.branch # "" THEN repository.branch
        ELSE "master"

getPullRefsBaseOnly(spec) ==
    [baseBranch |-> spec.refs.baseRef, baseSHA |-> spec.refs.baseSHA,
     pullRequests |-> <<>>]

\* getPullRefs: the metapipeline.PullRef
getPullRefs(spec) ==
    [baseBranch |-> spec.refs.baseRef, baseSHA |-> spec.refs.baseSHA,
     pullRequests |-> [i \in 1..Len(spec.refs.pulls) |->
                          [ID |-> Itoa(spec.refs.pulls[i].number),
                           MergeSHA |-> spec.refs.pulls[i].sha]]]

\* PullRef.String(): baseBranch:baseSHA and ,ID:MergeSHA for every pull request
RECURSIVE PullRequestRefsString(_)
PullRequestRefsString(prs) ==
    IF prs = <<>> THEN ""
    ELSE "," \o Head(prs).ID \o ":" \o Head(prs).MergeSHA
             \o PullRequestRefsString(Tail(prs))

PullRefString(pullRef) ==
    pullRef.baseBranch \o ":" \o pullRef.baseSHA
        \o PullRequestRefsString(pullRef.pullRequests)

\* Launch: the pullRefs text
LaunchPullRefs(spec, branch) ==
    IF Len(spec.refs.pulls) > 0 THEN PullRefString(getPullRefs(spec))
    ELSE branch \o ":"

NoKey == [name |-> "", build |-> 0]

NewLaunch ==
    [pc |-> "new", spec |-> JobSpecOf("", NoRefs), kind |-> "",
     key |-> NoKey, err |-> "", job |-> FALSE]

LauncherIdle ==
    /\ lcall = [c \in Launches |-> NewLaunch]
    /\ lbuild = 0
    /\ lcreated = {}
    /\ ljobs = {}
    /\ lapplied = {}

\* NewLauncher
LauncherInit == LauncherIdle

\* Launch up to metapipelineClient.Create, which generates the CRDs and the
\* activity key
LaunchCreate(c, spec, ok) ==
    /\ lcall[c].pc = "new"
    /\ LET key == [name |-> "activity", build |-> lbuild + 1]
       IN  IF spec.refs.nil
           THEN \* getPullRefs reads spec.Refs.Pulls through the nil pointer
                /\ lcall' = [lcall EXCEPT ![c] =
                               [@ EXCEPT !.spec = spec, !.err = NilDereference,
                                         !.pc = "done"]]
                /\ UNCHANGED <<lbuild, lcreated>>
           ELSE IF ok
           THEN /\ lcall' = [lcall EXCEPT ![c] =
                               [@ EXCEPT !.spec = spec, !.kind = PipelineKind(spec),
                                         !.key = key, !.pc = "created"]]
                /\ lbuild' = lbuild + 1
                /\ lcreated' = lcreated \cup {key}
           ELSE /\ lcall' = [lcall EXCEPT ![c] =
                               [@ EXCEPT !.spec = spec, !.kind = PipelineKind(spec),
                                         !.err = "unable to create Tekton CRDs",
                                         !.pc = "done"]]
                /\ UNCHANGED <<lbuild, lcreated>>
    /\ UNCHANGED <<ljobs, lapplied>>

AfterJobWriteAlways(ok) == "written"

\* Launch: where it goes on after the Job write
AfterJobWrite(ok) == IF ok THEN "written" ELSE "done"

\* Launch: the status is set on the request and the Job is written
LaunchWrite(c, ok) ==
    /\ lcall[c].pc = "created"
    /\ lcall' = [lcall EXCEPT ![c] =
                    [@ EXCEPT !.err = IF ok THEN "" ELSE "unable to apply LighthouseJob",
                              !.pc = AfterJobWrite(ok)]]
    /\ ljobs' = IF ok
                THEN ljobs \cup {[build |-> lcall[c].key.build, state |-> PendingState,
                                  activityName |-> lcall[c].key.name,
                                  type |-> lcall[c].spec.type]}
                ELSE ljobs
    /\ UNCHANGED <<lbuild, lcreated, lapplied>>

\* Launch: metapipelineClient.Apply and the return
LaunchApply(c, ok) ==
    /\ lcall[c].pc = "written"
    /\ lcall' = [lcall EXCEPT ![c] =
                    [@ EXCEPT !.err = IF ok THEN @ ELSE "unable to apply Tekton CRDs",
                              !.job = ok, !.pc = "done"]]
    /\ lapplied' = IF ok THEN lapplied \cup {lcall[c].key} ELSE lapplied
    /\ UNCHANGED <<lbuild, lcreated, ljobs>>

LauncherNext ==
    \/ \E c \in Launches, spec \in JobSpecs, ok \in BOOLEAN : LaunchCreate(c, spec, ok)
    \/ \E c \in Launches, ok \in BOOLEAN : LaunchWrite(c, ok)
    \/ \E c \in Launches, ok \in BOOLEAN : LaunchApply(c, ok)

-----------------------------------------------------------------------------
(* Commit status description: reportStatus on one activity record *)

\* the states an activity record can carry, "" for a record without one
DescStatuses == ActivityStates \cup {TriggeredState, ""}

AllStages == <<"build", "test", "package", "publish", "notify", "deploy">>

\* activity.RunningStages(): the first stages of AllStages, and a list whose
\* description is exactly as long as the limit
DescStageLists ==
    {SubSeq(AllStages, 1, n) : n \in 0..Len(AllStages)}
        \cup {<<"build", "test", "package", "publish", "notif">>}

DescGitKinds == {"github", "gitlab", "bitbucketserver"}

DescActivities ==
    [status : DescStatuses, stages : DescStageLists,
     gitURL : {"https://github.com/org/repo"}, sha : {"abc"}, owner : {"org"},
     repo : {"repo"}]

NoDescription ==
    [done |-> FALSE, info |-> StaticInfo(""), report |-> NoReport]

DescriptionIdle ==
    /\ dact = [status |-> "", stages |-> <<>>, gitURL |-> "", sha |-> "", owner |-> "",
               repo |-> ""]
    /\ dkind = "github"
    /\ dout = NoDescription

DescriptionInit ==
    /\ dact \in DescActivities
    /\ dkind \in DescGitKinds
    /\ dout = NoDescription

\* reportStatus on a job nothing was reported for yet, the SCM calls succeeding
DescribeActivity ==
    /\ ~dout.done
    /\ dout' = [done |-> TRUE,
                info |-> toScmStatusDescriptionRunningStages(dact, dkind),
                report |-> reportEffect(dact, InitialStatus, dkind, "ok")]
    /\ UNCHANGED <<dact, dkind>>

DescriptionNext == DescribeActivity

-----------------------------------------------------------------------------
(* Job specs: what Launch and GetEnvVars make of one job spec, and what *)
(* ToLighthouseJob makes of one activity record                          *)

Repositories == {[branch |-> ""], [branch |-> "main"]}

NoJobSpec == JobSpecOf("", NoRefs)

NoLaunch ==
    [done |-> FALSE, panicked |-> FALSE, branch |-> "", pullRefs |-> "", kind |-> "",
     pullRef |-> [baseBranch |-> "", baseSHA |-> "", pullRequests |-> <<>>]]

NoEnv == [done |-> FALSE, vars |-> {}]

\* Refs.String(): baseRef:baseSHA and ,number:sha for every pull
RECURSIVE PullsString(_)
PullsString(pulls) ==
    IF pulls = <<>> THEN ""
    ELSE "," \o Itoa(Head(pulls).number) \o ":" \o Head(pulls).sha
             \o PullsString(Tail(pulls))

RefsStringBaseOnly(refs) == refs.baseRef \o ":" \o refs.baseSHA

RefsString(refs) == refs.baseRef \o ":" \o refs.baseSHA \o PullsString(refs.pulls)

GetEnvVarsPullNumberAlways(spec) ==
    {<<"JOB_NAME", spec.job>>, <<"JOB_TYPE", spec.type>>,
     <<"JOB_SPEC", "type:" \o spec.type>>}
        \cup (IF spec.refs.nil THEN {}
              ELSE {<<"REPO_NAME", spec.refs.repo>>, <<"REPO_OWNER", spec.refs.org>>,
                    <<"PULL_BASE_REF", spec.refs.baseRef>>,
                    <<"PULL_BASE_SHA", spec.refs.baseSHA>>,
                    <<"PULL_REFS", RefsString(spec.refs)>>})
        \cup (IF ~spec.refs.nil /\ Len(spec.refs.pulls) > 0
              THEN {<<"PULL_NUMBER", Itoa(spec.refs.pulls[1].number)>>,
                    <<"PULL_PULL_SHA", spec.refs.pulls[1].sha>>}
              ELSE {})

\* LighthouseJobSpec.GetEnvVars: the environment map, as name and value pairs
GetEnvVars(spec) ==
    {<<"JOB_NAME", spec.job>>, <<"JOB_TYPE", spec.type>>,
     <<"JOB_SPEC", "type:" \o spec.type>>}
        \cup (IF spec.refs.nil THEN {}
              ELSE {<<"REPO_NAME", spec.refs.repo>>, <<"REPO_OWNER", spec.refs.org>>,
                    <<"PULL_BASE_REF", spec.refs.baseRef>>,
                    <<"PULL_BASE_SHA", spec.refs.baseSHA>>,
                    <<"PULL_REFS", RefsString(spec.refs)>>})
        \cup (IF ~spec.refs.nil /\ spec.type = "presubmit" /\ Len(spec.refs.pulls) > 0
              THEN {<<"PULL_NUMBER", Itoa(spec.refs.pulls[1].number)>>,
                    <<"PULL_PULL_SHA", spec.refs.pulls[1].sha>>}
              ELSE {})

\* PipelineActivitySpec.GitBranch
GitBranches ==
    {"master", "release", "batch", "PR-1", "PR-12", "PR-+2", "PR-", "PR-x", "feature"}

\* the activity records ToLighthouseJob is handed: the branch and
\* BatchPipelineActivity.ComprisingPulLRequests
PipelineActivities ==
    [gitBranch : GitBranches, comprising : {<<>>, <<"PR-1", "PR-2">>},
     gitOwner : {"some-org"}, gitRepository : {"some-repo"}, baseSHA : {"d0"},
     lastCommitSHA : {"abc"}, pipeline : {"some-org/some-repo/job"}]

NoPipelineActivity ==
    [gitBranch |-> "", comprising |-> <<>>, gitOwner |-> "", gitRepository |-> "",
     baseSHA |-> "", lastCommitSHA |-> "", pipeline |-> ""]

NoJob == [done |-> FALSE, type |-> "", job |-> "", refs |-> NoRefs]

\* strings.TrimPrefix
TrimPrefix(str, prefix) ==
    IF HasPrefix(str, prefix) THEN SubSeq(str, Len(prefix) + 1, Len(str)) ELSE str

IsDigit(ch) == \E d \in 1..10 : Digits[d] = ch

RECURSIVE DigitsValue(_)
DigitsValue(str) ==
    IF str = "" THEN 0
    ELSE 10 * DigitsValue(SubSeq(str, 1, Len(str) - 1))
            + (CHOOSE d \in 0..9 : Digits[d + 1] = SubSeq(str, Len(str), Len(str)))

\* strconv.Atoi: an optional sign and decimal digits, an error for anything else
Atoi(str) ==
    LET signed == Len(str) > 0 /\ SubSeq(str, 1, 1) \in {"+", "-"}
        body == IF signed THEN SubSeq(str, 2, Len(str)) ELSE str
        ok == Len(body) > 0 /\ \A i \in 1..Len(body) : IsDigit(SubSeq(body, i, i))
    IN  IF ~ok THEN [err |-> TRUE, n |-> 0]
        ELSE [err |-> FALSE,
              n |-> IF SubSeq(str, 1, 1) = "-" THEN 0 - DigitsValue(body)
                    ELSE DigitsValue(body)]

\* ToLighthouseJob: the job type
JobKind(spec) ==
    IF spec.gitBranch = "master" THEN "postsubmit"
    ELSE IF Len(spec.comprising) > 0 THEN "batch"
    ELSE "presubmit"

\* ToLighthouseJob: ref.Pulls
JobPulls(spec) ==
    LET nt == TrimPrefix(spec.gitBranch, "PR-")
    IN  IF HasPrefix(spec.gitBranch, "PR-") /\ nt # "" /\ ~Atoi(nt).err
        THEN <<[number |-> Atoi(nt).n, sha |-> spec.lastCommitSHA,
                ref |-> "pull/" \o nt \o "/head"]>>
        ELSE <<>>

\* ToLighthouseJob, but for Status.State, which v1alpha1.ToPipelineState makes
\* of the activity status
ToLighthouseJob(activity) ==
    [done |-> TRUE, type |-> JobKind(activity), job |-> activity.pipeline,
     refs |-> [nil |-> FALSE, org |-> activity.gitOwner,
               repo |-> activity.gitRepository, baseRef |-> "master",
               baseSHA |-> activity.baseSHA, pulls |-> JobPulls(activity)]]

JobSpecIdle ==
    /\ jspec = NoJobSpec
    /\ jrepo = [branch |-> ""]
    /\ jout = NoLaunch
    /\ jenv = NoEnv
    /\ jact = NoPipelineActivity
    /\ jjob = NoJob

JobSpecInit ==
    /\ jspec \in AllJobSpecs
    /\ jrepo \in Repositories
    /\ jout = NoLaunch
    /\ jenv = NoEnv
    /\ jact \in PipelineActivities
    /\ jjob = NoJob

\* Launch, from its entry to the PipelineCreateParam
LaunchLocals ==
    /\ ~jout.done
    /\ jout' = IF jspec.refs.nil
               THEN [NoLaunch EXCEPT !.done = TRUE, !.panicked = TRUE]
               ELSE LET branch == LaunchBranch(jspec, jrepo)
                    IN  [done |-> TRUE, panicked |-> FALSE, branch |-> branch,
                         pullRefs |-> LaunchPullRefs(jspec, branch),
                         kind |-> PipelineKind(jspec),
                         pullRef |-> getPullRefs(jspec)]
    /\ UNCHANGED <<jspec, jrepo, jenv>>

\* spec.GetEnvVars()
EnvVars ==
    /\ ~jenv.done
    /\ jenv' = [done |-> TRUE, vars |-> GetEnvVars(jspec)]
    /\ UNCHANGED <<jspec, jrepo, jout>>

\* the place of the first ch in str, 0 when there is none
IndexOf(str, ch) ==
    IF \E i \in 1..Len(str) : SubSeq(str, i, i) = ch
    THEN CHOOSE i \in 1..Len(str) :
            /\ SubSeq(str, i, i) = ch
            /\ \A j \in 1..(i - 1) : SubSeq(str, j, j) # ch
    ELSE 0

\* strings.Split on a separator of one character
RECURSIVE Split(_, _)
Split(str, sep) ==
    IF IndexOf(str, sep) = 0 THEN <<str>>
    ELSE <<SubSeq(str, 1, IndexOf(str, sep) - 1)>>
             \o Split(SubSeq(str, IndexOf(str, sep) + 1, Len(str)), sep)

\* the reading of the canonical pull refs text baseRef:baseSHA[,number:sha]*
ParsePullRefs(text) ==
    LET parts == Split(text, ",")
        base == Split(parts[1], ":")
    IN  [baseRef |-> base[1], baseSHA |-> base[2],
         pulls |-> [i \in 1..(Len(parts) - 1) |->
                      [number |-> Atoi(Split(parts[i + 1], ":")[1]).n,
                       sha |-> Split(parts[i + 1], ":")[2]]]]

\* List: ToLighthouseJob on an activity record of the namespace
ListItem ==
    /\ ~jjob.done
    /\ jjob' = ToLighthouseJob(jact)
    /\ UNCHANGED <<jspec, jrepo, jout, jenv, jact>>

JobSpecNext ==
    \/ LaunchLocals /\ UNCHANGED <<jact, jjob>>
    \/ EnvVars /\ UNCHANGED <<jact, jjob>>
    \/ ListItem

-----------------------------------------------------------------------------
(* Paged listings of the SCM provider client *)

\* largest number of the last page the provider reports
MaxLast == 2

\* List calls of one listing whose pages and items the model keeps
MaxRequests == MaxLast + 2

\* opts.Page++; the pages above MaxLast + 1 lie above every last page the provider
\* reports, and the model keeps two of them
NextPage(page) == IF page < MaxLast + 2 THEN page + 1 ELSE MaxLast + 1

\* opts.Page the caller of ListAllPullRequestsForFullNameRepo passes
StartPages == {0, 1}

\* a nil *scm.Response
NoResponse == [nil |-> TRUE, last |-> 0]

NoReturn == [done |-> FALSE]

NoList ==
    [fn |-> "", pc |-> "idle", page |-> 0, firstRun |-> FALSE, resp |-> NoResponse,
     all |-> <<>>]

\* what the provider's List answers for a page: an error, or the items of the page
\* with a response that reports the last page, or with no response
Responses(page) ==
    {[items |-> <<>>, resp |-> NoResponse, err |-> TRUE]}
        \cup [items : {<<>>, <<page>>},
              resp : {NoResponse} \cup [nil : {FALSE}, last : 0..MaxLast],
              err : {FALSE}]

ListReviewsContinuesFirstOnly(l) == ~l.firstRun

\* the loop condition of ListReviews
ListReviewsContinues(l) ==
    ~l.firstRun \/ (~l.resp.nil /\ l.page <= l.resp.last)

\* the loop condition of ListAllPullRequestsForFullNameRepo
ListAllContinues(l) ==
    l.resp.nil \/ l.page <= l.resp.last

Continues(l) ==
    IF l.fn = "ListReviews" THEN ListReviewsContinues(l) ELSE ListAllContinues(l)

PagerIdle ==
    /\ list = NoList
    /\ requests = <<>>
    /\ returned = NoReturn

PagerInit == PagerIdle

\* ListReviews is called: opts.Page is 1
ListReviews ==
    /\ list.pc # "loop"
    /\ list' = [NoList EXCEPT !.fn = "ListReviews", !.pc = "loop", !.page = 1]
    /\ requests' = <<>>
    /\ returned' = NoReturn

\* ListAllPullRequestsForFullNameRepo is called with the caller's opts
ListAllPullRequestsForFullNameRepo(page) ==
    /\ list.pc # "loop"
    /\ list' = [NoList EXCEPT !.fn = "ListAllPullRequestsForFullNameRepo",
                              !.pc = "loop", !.page = page]
    /\ requests' = <<>>
    /\ returned' = NoReturn

\* one pass of the loop: List for opts.Page, return on an error, else append the
\* items and go to the next page
ListPage(r) ==
    /\ list.pc = "loop"
    /\ Continues(list)
    /\ LET kept == Len(requests) < MaxRequests
       IN  /\ requests' = IF kept
                          THEN Append(requests, [page |-> list.page, items |-> r.items,
                                                 resp |-> r.resp, err |-> r.err])
                          ELSE requests
           /\ IF r.err
              THEN /\ list' = [list EXCEPT !.pc = "returned"]
                   /\ returned' = [done |-> TRUE, value |-> <<>>, err |-> TRUE]
              ELSE /\ list' = [list EXCEPT !.resp = r.resp,
                                           !.firstRun = (list.fn = "ListReviews"),
                                           !.all = IF kept THEN @ \o r.items ELSE @,
                                           !.page = NextPage(@)]
                   /\ returned' = returned

\* the loop condition is false: the listing returns what it has collected
ListReturn ==
    /\ list.pc = "loop"
    /\ ~Continues(list)
    /\ list' = [list EXCEPT !.pc = "returned"]
    /\ returned' = [done |-> TRUE, value |-> list.all, err |-> FALSE]
    /\ requests' = requests

ListStep ==
    \/ \E r \in Responses(list.page) : ListPage(r)
    \/ ListReturn

PagerNext ==
    \/ ListReviews
    \/ \E page \in StartPages : ListAllPullRequestsForFullNameRepo(page)
    \/ ListStep

-----------------------------------------------------------------------------
(* Specifications *)

Init ==
    FoghornInit /\ HistoryIdle /\ WebhookIdle /\ LauncherIdle /\ DescriptionIdle
        /\ JobSpecIdle /\ PagerIdle /\ CallersIdle

Next == FoghornNext /\ UNCHANGED <<hvars, wvars, lvars, dvars, jvars, pvars, kvars>>

Spec == Init /\ [][Next]_vars

\* the foghorn controller with its informer and workers always making progress
SpecLive == Spec /\ WF_vars(ControllerNext /\ UNCHANGED <<hvars, wvars, lvars, dvars, jvars, pvars, kvars>>)

InitHistory ==
    HistoryInit /\ FoghornInit /\ gitKind = "github" /\ WebhookIdle /\ LauncherIdle
        /\ DescriptionIdle /\ JobSpecIdle /\ PagerIdle /\ CallersIdle

NextHistory == HistoryNext /\ UNCHANGED <<fvars, wvars, lvars, dvars, jvars, pvars, kvars>>

SpecHistory == InitHistory /\ [][NextHistory]_vars

InitWebhook ==
    WebhookInit /\ FoghornInit /\ gitKind = "github" /\ HistoryIdle /\ LauncherIdle
        /\ DescriptionIdle /\ JobSpecIdle /\ PagerIdle /\ CallersIdle

NextWebhook == WebhookNext /\ UNCHANGED <<fvars, hvars, lvars, dvars, jvars, pvars, kvars>>

SpecWebhook == InitWebhook /\ [][NextWebhook]_vars

\* the webhook process with the handlers of the HTTP server making progress
SpecWebhookLive ==
    SpecWebhook /\ WF_vars(ServeNext /\ UNCHANGED <<fvars, hvars, lvars, dvars, jvars, pvars, kvars>>)

InitLauncher ==
    LauncherInit /\ FoghornInit /\ gitKind = "github" /\ HistoryIdle /\ WebhookIdle
        /\ DescriptionIdle /\ JobSpecIdle /\ PagerIdle /\ CallersIdle

NextLauncher == LauncherNext /\ UNCHANGED <<fvars, hvars, wvars, dvars, jvars, pvars, kvars>>

SpecLauncher == InitLauncher /\ [][NextLauncher]_vars

InitDescription ==
    DescriptionInit /\ FoghornInit /\ gitKind = "github" /\ HistoryIdle /\ WebhookIdle
        /\ LauncherIdle /\ JobSpecIdle /\ PagerIdle /\ CallersIdle

NextDescription == DescriptionNext /\ UNCHANGED <<fvars, hvars, wvars, lvars, jvars, pvars, kvars>>

SpecDescription == InitDescription /\ [][NextDescription]_vars

InitJobSpec ==
    JobSpecInit /\ FoghornInit /\ gitKind = "github" /\ HistoryIdle /\ WebhookIdle
        /\ LauncherIdle /\ DescriptionIdle /\ PagerIdle /\ CallersIdle

NextJobSpec == JobSpecNext /\ UNCHANGED <<fvars, hvars, wvars, lvars, dvars, pvars, kvars>>

SpecJobSpec == InitJobSpec /\ [][NextJobSpec]_vars

InitPager ==
    PagerInit /\ FoghornInit /\ gitKind = "github" /\ HistoryIdle /\ WebhookIdle
        /\ LauncherIdle /\ DescriptionIdle /\ JobSpecIdle /\ CallersIdle

NextPager == PagerNext /\ UNCHANGED <<fvars, hvars, wvars, lvars, dvars, jvars, kvars>>

SpecPager == InitPager /\ [][NextPager]_vars

InitCallers ==
    HistoryInit /\ CallersInit /\ FoghornInit /\ gitKind = "github" /\ WebhookIdle
        /\ LauncherIdle /\ DescriptionIdle /\ JobSpecIdle /\ PagerIdle

NextCallers == CallersNext /\ UNCHANGED <<fvars, wvars, lvars, dvars, jvars, pvars>>

SpecHistoryCalls == InitCallers /\ [][NextCallers]_vars

\* a listing that is running goes on running
SpecPagerLive ==
    SpecPager /\ WF_vars(ListStep /\ UNCHANGED <<fvars, hvars, wvars, lvars, dvars, jvars, kvars>>)

-----------------------------------------------------------------------------
(* Status Reconciler: properties *)

TerminalReportStates == {"success", "failure", "error", "canceled"}

TerminalJobStates == {SuccessState, FailureState, AbortedState, ErrorState}

\* worker w takes the step of a reconcile that runs reportStatus
Reports(w) == wpc[w] = "idle" /\ wpc'[w] = "write"

\* worker w takes the step of a reconcile that ends in UpdateStatus being accepted
Stores(w) == wpc[w] = "write" /\ wpc'[w] = "idle" /\ store'.rv # store.rv

\* C1: once the Job's lastReportState is success, failure, error or canceled, no
\* reconcile posts a commit status for the Job any more, whatever its activity says.
C1_TerminalReportNeverResent ==
    [][\A w \in Workers :
          (store.status.lastReportState \in TerminalReportStates /\ Reports(w))
              => (~wrep'[w].posted /\ scmStatus' = scmStatus)]_vars

\* C1 witness: success was reported, the activity then turned to failure, and the
\* reconcile of that activity stored the new state without posting.
C1_Witness ==
    /\ store.status.lastReportState = "success"
    /\ store.status.state = FailureState
    /\ scmStatus.state = "success"
    /\ last.activity # NoActivity
    /\ last.activity.status = FailureState
    /\ ~last.posted

Count(b) == IF b THEN 1 ELSE 0

\* worker w has run reportStatus on the activity the previous reconcile also ran on
SameActivityAgain(w) ==
    /\ wpc[w] = "write"
    /\ last.activity # NoActivity
    /\ wjob[w].activity = last.activity

C3_StateMonotone ==
    [][store.status.state \in TerminalJobStates
          => store'.status.state = store.status.state]_vars

\* C4: the Job's lastReportState, once success, failure, error or canceled, never
\* changes again (so it becomes terminal at most once).
C4_LastReportStateTerminalOnce ==
    [][store.status.lastReportState \in TerminalReportStates
          => store'.status.lastReportState = store.status.lastReportState]_vars

\* C4 witness: failure was reported and stored, and a later reconcile stored the
\* state of a newer activity while lastReportState stayed failure.
C4_Witness ==
    /\ store.status.lastReportState = "failure"
    /\ store.status.state = SuccessState
    /\ last.stored
    /\ last.activity # NoActivity
    /\ last.activity.status = SuccessState

\* C5: a status write of the reconciler that the store accepts keeps the activity
\* record the store holds at that moment (another writer's update is not lost).
C5_NoLostUpdate ==
    [][\A w \in Workers :
          Stores(w) => store'.status.activity = store.status.activity]_vars

-----------------------------------------------------------------------------
(* Keeper action history: properties *)

Min(a, b) == IF a < b THEN a ELSE b

RECURSIVE Reverse(_)
Reverse(sq) == IF sq = <<>> THEN <<>> ELSE Append(Reverse(Tail(sq)), Head(sq))

\* the n most recent of the records added, most recent first
Newest(addedSeq, n) == Reverse(SubSeq(addedSeq, Len(addedSeq) - n + 1, Len(addedSeq)))

Held(rl) == {rl.buff[i] : i \in 1..Len(rl.buff)}

\* the step adds a record to the log of pool key k
Adds(k) == hadded'[k] # hadded[k]

\* C6: a pool key never holds more records than the log size limit, and a record
\* added to a full log takes the place of the oldest record of that key, the other
\* records staying where they are.
C6_BoundedOldestReplaced ==
    [][\A k \in PoolKeys :
          /\ Len(hlogs'[k].buff) <= hlimit
          /\ (Adds(k) /\ Len(hlogs[k].buff) = hlimit) =>
                LET oldest == hadded[k][Len(hadded[k]) - hlimit + 1]
                    new == hadded'[k][Len(hadded'[k])]
                IN  /\ oldest \in Held(hlogs[k])
                    /\ Held(hlogs'[k]) = (Held(hlogs[k]) \ {oldest}) \cup {new}
                    /\ \A i \in 1..hlimit :
                          hlogs[k].buff[i] # oldest => hlogs'[k].buff[i] = hlogs[k].buff[i]]_vars

\* C6 witness: a full log of at least 2 records that has already been overwritten.
C6_Witness ==
    \E k \in PoolKeys :
        /\ hlimit >= 2
        /\ Len(hlogs[k].buff) = hlimit
        /\ Len(hadded[k]) > hlimit

\* C7: for a log size limit c >= 1, after n Record calls on a key AllRecords returns
\* for that key the min(n, c) most recently added records, most recent first.
C7_NewestFirstSnapshot ==
    \A k \in PoolKeys :
        (hlimit >= 1 /\ hlogs[k].present)
            => toSlice(hlogs[k]) = Newest(hadded[k], Min(Len(hadded[k]), hlimit))

\* C7 witness: AllRecords has returned the snapshot of a log that wrapped around.
C7_Witness ==
    \E k \in PoolKeys :
        /\ hlimit >= 2
        /\ Len(hadded[k]) > hlimit
        /\ hlogs[k].cachedSlice.set
        /\ hsnap[k] = Newest(hadded[k], hlimit)
        /\ Len(hsnap[k]) = hlimit

-----------------------------------------------------------------------------
(* Webhook dispatcher: properties *)

\* C8: the plugin handlers of a request run with the SCM token, the git credentials
\* and the cluster clients resolved for that request.
C8_HandlersUseOwnClients ==
    \A r \in Requests :
        req[r].handler.ran =>
            /\ req[r].handler.agent.token = req[r].token
            /\ req[r].handler.git.token = req[r].token

\* C9: in app-install mode, a webhook (other than a ping) from a repository the
\* loaded config has no presubmit or postsubmit for is answered with status 500
\* and a text containing "repository not configured", and no internal or external
\* plugin is invoked for it.
C9_UnconfiguredRepoRejected ==
    \A r \in Requests :
        (req[r].pc = "done" /\ req[r].notConfigured) =>
            /\ req[r].code = 500
            /\ \E i \in 1..Len(req[r].body) :
                  req[r].body[i] = "500 Internal Server Error: repository not configured: "
                                       \o req[r].repo
            /\ ~req[r].handler.ran
            /\ req[r].external = 0

\* C10: a POST whose body cannot be read or parsed, whose credentials cannot be
\* resolved or whose cluster clients cannot be created is answered with a 5xx
\* status, and no internal handler or external plugin is dispatched for it.
C10_FailureEndsHandling ==
    \A r \in Requests :
        req[r].failed # "" =>
            /\ ~req[r].handler.ran
            /\ req[r].external = 0
            /\ req[r].pc = "done" => (req[r].code >= 500 /\ ~req[r].aborted)

\* C11: GET /ready is answered with 204 only when both the core config and the
\* plugin config have been loaded, and with 503 before that.
C11_ReadyOnlyOnceConfigsLoaded ==
    probe.code # 0 =>
        probe.code = (IF probe.core /\ probe.plugins THEN 204 ELSE 503)

\* the workers that are inside syncHandler for the key
Holders(k) == {w \in Workers : wpc[w] = "write"}

\* C14: at most one worker processes a Job key at any time, whatever the informer
\* events and error requeues that add the key while it is being processed.
C14_OneWorkerPerKey ==
    \A k \in Keys :
        /\ Cardinality(Holders(k)) <= 1
        /\ Holders(k) # {} => k \in processing

\* the key was added again while a worker holds it, and another worker is idle
C14_Witness ==
    \E w, v \in Workers :
        /\ wpc[w] = "write" /\ wpc[v] = "idle"
        /\ JobKey \in dirty
        /\ last.activity # NoActivity

\* C15: a reconcile hands the activity to the external plugins only when its
\* SCM status post has succeeded.
C15_ExternalOnlyAfterStatusPost ==
    \A w \in Workers : wrep[w].external => wrep[w].posted

\* worker w takes the last step of a reconcile
Finishes(w) == wpc[w] = "write" /\ wpc'[w] = "idle"

\* worker w ends a reconcile with an error, which re-adds the key
Requeues(w) == Finishes(w) /\ ~last'.stored

\* a failed status post leaves what the Job says about reports as it was read
PostFailureRecordsNothing(w) ==
    (Reports(w) /\ wrep'[w].failed) =>
        /\ wjob'[w].lastReportState = cache.status.lastReportState
        /\ wjob'[w].description = cache.status.description
        /\ wjob'[w].reportURL = cache.status.reportURL

\* a failed comment update is swallowed: the report is recorded all the same
CommentFailureStillRecords(w) ==
    (Reports(w) /\ wrep'[w].posted /\ ~wrep'[w].commented) =>
        /\ wjob'[w].lastReportState = StateString(wrep'[w].state)
        /\ wjob'[w].description = wrep'[w].desc

\* C16: when the status post fails the reconcile records nothing on the Job and
\* the worker does not requeue the key; when only the comment update fails,
\* lastReportState and description are recorded all the same.
C16_PostFailureNoRecordNoRequeue ==
    [][\A w \in Workers :
          /\ PostFailureRecordsNothing(w)
          /\ CommentFailureStillRecords(w)
          /\ wrep[w].failed => ~Requeues(w)]_vars

\* C16 as it holds: a failed status post records nothing and does not by itself
\* requeue the key; the worker requeues it only when the Job is gone or the status
\* write of the same reconcile is refused. A failed comment update is swallowed.
C16_PostFailureRequeueOnlyOnWriteError ==
    [][\A w \in Workers :
          /\ PostFailureRecordsNothing(w)
          /\ CommentFailureStillRecords(w)
          /\ (wrep[w].failed /\ Requeues(w)) =>
                (~cache.exists \/ (wjob[w] # cache.status /\ store' = store))]_vars

\* a reconcile whose comment update failed was followed by one whose status post
\* failed
C16_Witness ==
    \E w \in Workers :
        /\ wpc[w] = "write" /\ wrep[w].failed
        /\ last.posted /\ ~last.commented

\* C13: a Job that was written in state pending and never gets an activity (its
\* CRDs were not applied) is eventually marked failed by the reconciler.
C13_PendingWithoutActivityMarkedFailed ==
    [](store.exists /\ store.status.activity = NoActivity)
        => <>(store.status.state = FailureState)

-----------------------------------------------------------------------------
(* Launcher: properties *)

JobOf(c) == {j \in ljobs : j.build = lcall[c].key.build}

\* C12: Launch submits to the engine (Create), then writes the Job record, then
\* applies the CRDs: a Job record exists only for a key the engine generated and
\* CRDs are applied only for a key whose Job record exists; a failed Create leaves
\* no Job record and nothing applied, a failed Job write leaves nothing applied,
\* and a failed Apply returns the error with the Job record in state pending.
C12_LaunchOrder ==
    /\ \A j \in ljobs : \E k \in lcreated : k.build = j.build
    /\ \A k \in lapplied : \E j \in ljobs : j.build = k.build
    /\ \A c \in Launches :
          /\ lcall[c].err = "unable to create Tekton CRDs" =>
                lcall[c].pc = "done" /\ JobOf(c) = {} /\ lcall[c].key \notin lapplied
          /\ lcall[c].err = "unable to apply LighthouseJob" =>
                lcall[c].pc = "done" /\ JobOf(c) = {} /\ lcall[c].key \notin lapplied
          /\ lcall[c].err = "unable to apply Tekton CRDs" =>
                /\ lcall[c].pc = "done" /\ ~lcall[c].job
                /\ lcall[c].key \notin lapplied
                /\ \E j \in JobOf(c) : j.state = PendingState

C12_Witness ==
    \E c, d \in Launches :
        /\ lcall[c].err = "unable to apply Tekton CRDs" /\ JobOf(c) # {}
        /\ lcall[d].err = "unable to apply LighthouseJob"

-----------------------------------------------------------------------------
(* Commit status description: properties *)

\* the SCM state the activity states are to be reported as
ExpectedScmState(status) ==
    CASE status = "success" -> "success"
      [] status \in {"pending", "running"} -> "running"
      [] status = "failure" -> "failure"
      [] status = "aborted" -> "error"
      [] OTHER -> "unknown"

\* C17: success is reported as success, pending and running as running, failure
\* as failure, aborted as error and every other state as unknown, and no commit
\* status is posted with state unknown.
C17_StateMapping ==
    dout.done =>
        /\ dout.info.scmStatus = ExpectedScmState(dact.status)
        /\ dout.report.posted => dout.report.state # "unknown"
        /\ dout.info.scmStatus = "unknown" => ~dout.report.posted

C17_Witness ==
    /\ dout.done
    /\ dact.status = ErrorState
    /\ dout.info.scmStatus = "unknown"
    /\ ~dout.report.posted

RECURSIVE Listed(_)
\* the names of a stage list, each after the first preceded by ", "
Listed(stages) ==
    IF stages = <<>> THEN ""
    ELSE IF Len(stages) = 1 THEN stages[1]
    ELSE Listed(SubSeq(stages, 1, Len(stages) - 1)) \o ", " \o stages[Len(stages)]

\* the description of a list of running stages before any cut
FullDescription(stages) == "Pipeline running stage(s): " \o Listed(stages)

\* C18: the description has at most 63 characters; a running-stage description
\* of more than 63 characters is cut to its first 59 characters followed by "..."
\* (62 characters), one of 63 characters or fewer is left as it is.
C18_DescriptionWithinLimit ==
    dout.done =>
        /\ Len(dout.info.description) <= 63
        /\ (Len(dact.stages) > 0 /\ dkind # "gitlab") =>
              LET full == FullDescription(dact.stages)
              IN  IF Len(full) > 63
                  THEN /\ dout.info.description = SubSeq(full, 1, 59) \o "..."
                       /\ Len(dout.info.description) = 62
                  ELSE dout.info.description = full

\* the description of a list of more than 63 characters was cut
C18_Witness ==
    /\ dout.done
    /\ dkind = "github"
    /\ Len(FullDescription(dact.stages)) > 63
    /\ Len(dout.info.description) = 62

FiveStages == <<"build", "test", "package", "publish", "notify">>

SixStages == <<"build", "test", "package", "publish", "notify", "deploy">>

\* C19: with the running stages build, test, package, publish, notify the
\* description has length 62 and is emitted unchanged; with deploy added it has
\* length 70 and is emitted as "Pipeline running stage(s): build, test, pack..."
\* of exactly 62 characters.
C19_ExampleAsStated ==
    (dout.done /\ dkind = "github") =>
        /\ dact.stages = FiveStages =>
              /\ Len(dout.info.description) = 62
              /\ dout.info.description =
                    "Pipeline running stage(s): build, test, package, publish, notify"
        /\ dact.stages = SixStages =>
              /\ Len(dout.info.description) = 62
              /\ dout.info.description = "Pipeline running stage(s): build, test, pack..."

\* C19 as it holds: the description of build, test, package, publish, notify has
\* 64 characters and the one with deploy added has 72; both are over the limit
\* and are emitted as the same 62 characters, the first 59 followed by "...".
C19_ExampleAsComputed ==
    (dout.done /\ dkind = "github" /\ dact.stages \in {FiveStages, SixStages}) =>
        /\ Len("Pipeline running stage(s): build, test, package, publish, notify") = 64
        /\ Len("Pipeline running stage(s): build, test, package, publish, notify, deploy") = 72
        /\ dout.info.description =
              "Pipeline running stage(s): build, test, package, publish, n..."
        /\ Len(dout.info.description) = 62

C19_Witness ==
    /\ dout.done
    /\ dkind = "github"
    /\ dact.stages = SixStages
    /\ dout.info.description # FullDescription(SixStages)

\* the texts of the switch on the activity state
StaticDescriptions ==
    {"Pipeline successful", "Pipeline running", "Error executing pipeline",
     "Pipeline failed", "Pipeline in unknown state"}

\* C20: for git kind gitlab the description is the static text of the state and
\* carries no running stage, for every activity state and any number of running
\* stages.
C20_GitLabStaticDescription ==
    (dout.done /\ dkind = "gitlab") =>
        /\ dout.info.description \in StaticDescriptions
        /\ dout.info.runningStages = ""
        /\ dout.report.posted => dout.report.desc \in StaticDescriptions

C20_Witness ==
    /\ dout.done
    /\ dkind = "gitlab"
    /\ dact.stages = SixStages
    /\ dact.status = RunningState
    /\ dout.report.posted
    /\ dout.report.desc = "Pipeline running"

-----------------------------------------------------------------------------
(* Job specs: properties *)

\* the first text of a list that is not empty
RECURSIVE FirstNonEmpty(_)
FirstNonEmpty(texts) ==
    IF texts = <<>> THEN ""
    ELSE IF Head(texts) # "" THEN Head(texts)
    ELSE FirstNonEmpty(Tail(texts))

PRBranchName(n) == CASE n = 1 -> "PR-1" [] n = 2 -> "PR-2" [] n = 12 -> "PR-12"

\* the branch the job type and the refs stand for
DerivedBranch(spec) ==
    CASE spec.type = "postsubmit" -> spec.refs.baseRef
      [] spec.type = "batch" -> "batch"
      [] spec.type = "presubmit" /\ spec.refs.pulls # <<>> ->
            PRBranchName(spec.refs.pulls[1].number)
      [] OTHER -> spec.refs.baseRef

\* C21: the branch Launch passes on is the base ref for a postsubmit job,
\* "batch" for a batch job, "PR-<number of the first pull>" for a presubmit job
\* with pulls and the base ref otherwise; an empty branch becomes the default
\* branch of the repository, and "master" when that is empty too.
C21_BranchPassedByLaunch ==
    (jout.done /\ ~jout.panicked) =>
        jout.branch = FirstNonEmpty(<<DerivedBranch(jspec), jrepo.branch, "master">>)

C21_Witness ==
    /\ jout.done
    /\ jspec.type = "presubmit"
    /\ Len(jspec.refs.pulls) = 2
    /\ jspec.refs.baseRef = ""
    /\ jout.branch = "PR-12"

\* C22: for every job spec with an empty pull list, a spec without refs
\* included, Launch completes without crashing, uses the pipeline kind release
\* and the first of base ref, repository default branch and "master" that is
\* not empty as the branch; the kind is pullRequest exactly when there are pulls.
C22_NoPullsLaunchCompletes ==
    jout.done =>
        /\ jspec.refs.pulls = <<>> =>
              /\ ~jout.panicked
              /\ jout.kind = "release"
              /\ jout.branch =
                    FirstNonEmpty(<<jspec.refs.baseRef, jrepo.branch, "master">>)
        /\ jout.kind = "pullrequest" <=> jspec.refs.pulls # <<>>

NumberText(n) == CASE n = 1 -> "1" [] n = 2 -> "2" [] n = 12 -> "12"

\* ",number:sha" for every pull, in the order of the list
RECURSIVE PullsText(_)
PullsText(pulls) ==
    IF pulls = <<>> THEN ""
    ELSE PullsText(SubSeq(pulls, 1, Len(pulls) - 1)) \o ","
             \o NumberText(pulls[Len(pulls)].number) \o ":" \o pulls[Len(pulls)].sha

\* the values the environment map has for a name
EnvValues(name) == {pair[2] : pair \in {q \in jenv.vars : q[1] = name}}

\* the pull refs texts the GetEnvVars test expects for its three specs with refs
TestPullRefs(spec) ==
    CASE spec = JobSpecOf("postsubmit", Refs("master", "1234abcd", <<>>)) ->
            {"master:1234abcd"}
      [] spec = JobSpecOf("presubmit",
                          Refs("master", "1234abcd", <<[number |-> 1, sha |-> "5678"]>>)) ->
            {"master:1234abcd,1:5678"}
      [] spec = JobSpecOf("batch",
                          Refs("master", "1234abcd",
                               <<[number |-> 1, sha |-> "5678"],
                                 [number |-> 2, sha |-> "0efg"]>>)) ->
            {"master:1234abcd,1:5678,2:0efg"}
      [] OTHER -> {}

\* C23: PULL_REFS is "baseRef:baseSHA" followed by ",number:sha" for every
\* pull in list order, as in the three examples of the GetEnvVars test; the pull
\* reference Launch hands to the engine client reads the same.
C23_PullRefsFormat ==
    /\ (jenv.done /\ ~jspec.refs.nil) =>
          /\ EnvValues("PULL_REFS") =
                {jspec.refs.baseRef \o ":" \o jspec.refs.baseSHA
                     \o PullsText(jspec.refs.pulls)}
          /\ TestPullRefs(jspec) \subseteq EnvValues("PULL_REFS")
    /\ (jout.done /\ ~jout.panicked) =>
          PullRefString(jout.pullRef) =
              jspec.refs.baseRef \o ":" \o jspec.refs.baseSHA
                  \o PullsText(jspec.refs.pulls)

C23_Witness ==
    /\ jenv.done
    /\ jout.done
    /\ jspec.type = "batch"
    /\ EnvValues("PULL_REFS") = {"master:1234abcd,1:5678,2:0efg"}
    /\ PullRefString(jout.pullRef) = "master:1234abcd,1:5678,2:0efg"

EnvNames == {pair[1] : pair \in jenv.vars}

JobEnvNames == {"JOB_NAME", "JOB_TYPE", "JOB_SPEC"}

RefsEnvNames == {"REPO_NAME", "REPO_OWNER", "PULL_BASE_REF", "PULL_BASE_SHA", "PULL_REFS"}

PullEnvNames == {"PULL_NUMBER", "PULL_PULL_SHA"}

JobSpecText(type) ==
    CASE type = "periodic" -> "type:periodic"
      [] type = "postsubmit" -> "type:postsubmit"
      [] type = "presubmit" -> "type:presubmit"
      [] type = "batch" -> "type:batch"

\* C24: GetEnvVars exports PULL_NUMBER and PULL_PULL_SHA only for a presubmit
\* job; a periodic job without refs exports exactly JOB_NAME, JOB_TYPE and
\* JOB_SPEC, the last reading "type:<type>"; a job with refs exports REPO_NAME,
\* REPO_OWNER, PULL_BASE_REF, PULL_BASE_SHA and PULL_REFS as well.
C24_EnvVarsByJobType ==
    jenv.done =>
        /\ EnvNames \cap PullEnvNames # {} => jspec.type = "presubmit"
        /\ EnvValues("JOB_NAME") = {jspec.job}
        /\ EnvValues("JOB_TYPE") = {jspec.type}
        /\ EnvValues("JOB_SPEC") = {JobSpecText(jspec.type)}
        /\ jspec.refs.nil => EnvNames = JobEnvNames
        /\ ~jspec.refs.nil =>
              /\ JobEnvNames \cup RefsEnvNames \subseteq EnvNames
              /\ EnvNames \subseteq JobEnvNames \cup RefsEnvNames \cup PullEnvNames
              /\ EnvValues("REPO_NAME") = {jspec.refs.repo}
              /\ EnvValues("REPO_OWNER") = {jspec.refs.org}
              /\ EnvValues("PULL_BASE_REF") = {jspec.refs.baseRef}
              /\ EnvValues("PULL_BASE_SHA") = {jspec.refs.baseSHA}
        /\ jspec = JobSpecOf("presubmit",
                             Refs("master", "1234abcd", <<[number |-> 1, sha |-> "5678"]>>))
              => EnvValues("PULL_NUMBER") = {"1"} /\ EnvValues("PULL_PULL_SHA") = {"5678"}

C24_Witness ==
    /\ jenv.done
    /\ jspec.type = "batch"
    /\ EnvNames = JobEnvNames \cup RefsEnvNames

\* what a pull refs text stands for
RefsContent(refs) ==
    [baseRef |-> refs.baseRef, baseSHA |-> refs.baseSHA, pulls |-> refs.pulls]

C26_JobPullsRule ==
    jjob.done =>
        /\ jjob.type \in {"postsubmit", "periodic"} => jjob.refs.pulls = <<>>
        /\ jjob.type = "batch" => Len(jjob.refs.pulls) >= 2

-----------------------------------------------------------------------------
(* Webhook dispatcher: properties of ProcessWebHook and of the process *)

\* the handler of the request went through ProcessWebHook and answered
Processes(r) ==
    /\ req[r].pc = "done"
    /\ req[r].kind # ""
    /\ req[r].failed = ""
    /\ ~req[r].aborted

\* a ping is answered with a text starting with "pong", with no internal handler
\* run and no check of the repository against the config
PingAnswered(r) ==
    (Processes(r) /\ req[r].kind = "ping") =>
        /\ req[r].code = 200
        /\ Len(req[r].body) = 1
        /\ HasPrefix(req[r].body[1], "pong")
        /\ ~req[r].handler.ran
        /\ ~req[r].notConfigured

\* C27 as stated: a ping is answered with "pong..." without an internal handler
\* and without the check for an unconfigured repository; a webhook of a kind
\* without a handler runs no internal handler and is answered with status 200.
C27_PingAndUnknownKind ==
    \A r \in Requests :
        /\ PingAnswered(r)
        /\ (Processes(r) /\ req[r].kind \notin HandledKinds \cup {"ping"}) =>
              /\ ~req[r].handler.ran
              /\ req[r].code = 200

\* C27 as the code has it: the webhook of a kind without a handler is answered
\* with status 200 unless its repository is rejected as not configured, which is
\* checked before the kind is looked at and answered with status 500.
C27_UnknownKindUnlessNotConfigured ==
    \A r \in Requests :
        /\ PingAnswered(r)
        /\ (Processes(r) /\ req[r].kind \notin HandledKinds \cup {"ping"}) =>
              /\ ~req[r].handler.ran
              /\ req[r].code = (IF req[r].notConfigured THEN 500 ELSE 200)
              /\ req[r].notConfigured =>
                    (appMode /\ coreConfig.loaded /\ req[r].repo \notin coreConfig.repos)

C27_Witness ==
    \E r \in Requests :
        /\ Processes(r)
        /\ req[r].kind = "deployment"
        /\ appMode
        /\ req[r].repo \in coreConfig.repos
        /\ req[r].code = 200
        /\ req[r].body = <<"unknown hook deployment">>

\* the request was not a POST: answered without a body being read
NotPost(r) == req[r].pc = "done" /\ req[r].kind = "" /\ req[r].failed = ""

\* C28: the handler of a request starts at most one dispatch to the external
\* plugins, only from a POST that came to the end of its handling and only when an
\* external plugin is subscribed for the repository and kind of the webhook; a
\* request that is not a POST starts none.
C28_AtMostOneExternalDispatch ==
    [][\A r \in Requests :
          /\ req'[r].external <= 1
          /\ req'[r].external # req[r].external =>
                /\ req[r].pc = "agent"
                /\ req'[r].pc = "done"
                /\ req'[r].external = req[r].external + 1
                /\ req[r].repo \in pluginConfig.repos
          /\ NotPost(r)' => req'[r].external = 0]_vars

C28_Witness ==
    \E r \in Requests :
        /\ req[r].pc = "done"
        /\ req[r].kind = "push"
        /\ req[r].external = 1

\* C29: after the first stop signal the webhook process stops accepting requests
\* and ends, with no second signal.
C29_FirstSignalStopsServer == (signals = 1) ~> (~serving /\ signals = 1)

-----------------------------------------------------------------------------
(* Status Reconciler: properties of the event handlers *)

\* the step hands the first waiting watch event to the event handlers
Delivers == watch # <<>> /\ watch' = Tail(watch)

\* the step adds the key to the queue, or leaves the queue as it is
Enqueues == JobKey \in dirty'

LeavesQueue == <<queue, dirty, processing>>' = <<queue, dirty, processing>>

\* C30: the key of a Job is added to the queue on an update event exactly when
\* the old and the new object differ in resourceVersion (a resync, which has the
\* same object on both sides, adds nothing), always on a delete event and never
\* on an add event.
C30_EnqueueOnChangeOrDelete ==
    [][/\ (Delivers /\ Head(watch).exists /\ ~cache.exists) => LeavesQueue
       /\ (Delivers /\ Head(watch).exists /\ cache.exists) =>
             IF Head(watch).rv # cache.rv THEN Enqueues ELSE LeavesQueue
       /\ (Delivers /\ ~Head(watch).exists) => Enqueues
       /\ (~Delivers /\ wpc' = wpc /\ JobKey \notin dirty) => ~Enqueues]_vars

C30_Witness ==
    /\ cache.exists
    /\ cache.rv > 1
    /\ JobKey \in dirty
    /\ queue = <<JobKey>>
    /\ last = NoLast
    /\ \A w \in Workers : wpc[w] = "idle"

\* the step ends the work item of worker w, syncHandler having returned
EndsItem(w) == wpc[w] = "write" /\ wpc'[w] = "idle"

\* the step is a work item that syncHandler had nothing to do for
NothingToDo == queue # <<>> /\ queue' = Tail(queue) /\ wpc' = wpc

\* C31: every key a worker takes from the queue is marked Done once, when the
\* work item ends; when syncHandler returned an error the worker adds the key
\* again through the rate limiter, and when it returned none the key is
\* forgotten by the rate limiter and the worker does not add it.
C31_DoneOnceRequeueOnError ==
    [][/\ \A w \in Workers :
             EndsItem(w) =>
                 /\ JobKey \in processing
                 /\ JobKey \notin processing'
                 /\ IF last'.stored
                    THEN /\ ~limited'
                         /\ JobKey \in dirty' <=> JobKey \in dirty
                    ELSE /\ limited'
                         /\ JobKey \in dirty'
                         /\ \E i \in 1..Len(queue') : queue'[i] = JobKey
       /\ NothingToDo =>
             /\ processing' = processing
             /\ dirty' = dirty \ {Head(queue)}
             /\ ~limited'
       /\ JobKey \in processing' <=> \E w \in Workers : wpc'[w] = "write"]_vars

C31_Witness ==
    /\ last # NoLast
    /\ ~last.stored
    /\ limited
    /\ queue = <<JobKey>>
    /\ processing = {}
    /\ watch = <<>>
    /\ \A w \in Workers : wpc[w] = "idle"

\* processNextWorkItem takes the next key off the queue
Takes == queue # <<>> /\ queue' = Tail(queue)

\* worker w has posted a commit status in this step
Posts(w) == wpc[w] = "idle" /\ wpc'[w] = "write" /\ wrep'[w].posted

\* C32: a reconcile posts a commit status only if the Job exists, has an activity
\* record and the record has a git URL, a commit SHA, an owner and a repository;
\* a reconcile that finds the Job absent or without an activity record changes
\* neither the Job store nor the commit status and returns no error: the key is
\* forgotten and not added again
C32_PostOnlyForCompleteActivity ==
    [][/\ \A w \in Workers : Posts(w) =>
              /\ cache.exists
              /\ cache.status.activity # NoActivity
              /\ cache.status.activity.gitURL # ""
              /\ cache.status.activity.sha # ""
              /\ cache.status.activity.owner # ""
              /\ cache.status.activity.repo # ""
       /\ scmStatus' # scmStatus => \E w \in Workers : Posts(w)
       /\ (Takes /\ (~cache.exists \/ cache.status.activity = NoActivity)) =>
              /\ store' = store
              /\ cache' = cache
              /\ scmStatus' = scmStatus
              /\ wpc' = wpc
              /\ processing' = processing
              /\ JobKey \notin dirty'
              /\ ~limited']_vars

\* the Job was reported, then deleted, and the reconcile of the delete event has
\* found it absent
C32_Witness ==
    /\ last # NoLast
    /\ last.posted
    /\ last.activity.gitURL # ""
    /\ ~store.exists
    /\ ~cache.exists
    /\ watch = <<>>
    /\ queue = <<>>
    /\ processing = {}
    /\ ~limited

\* the texts the handlers drop
Dropped(text, loaded) == text = "" \/ loaded.err

\* C33: a change of a config map whose text is empty or does not parse leaves the
\* active core config and the active plugin config as they are; a text that parses
\* makes its config the active one as a whole: the active config is always the
\* initial one or the config of one text
C33_ConfigReplacedAsAWhole ==
    [][/\ \A t \in ConfigTexts :
              OnConfigYamlChange(t) =>
                  /\ pluginConfig' = pluginConfig
                  /\ coreConfig' = IF Dropped(t, LoadYAMLConfig(t)) THEN coreConfig
                                   ELSE LoadYAMLConfig(t).config
       /\ \A t \in PluginTexts :
              OnPluginsYamlChange(t) =>
                  /\ coreConfig' = coreConfig
                  /\ pluginConfig' = IF Dropped(t, LoadPluginsYAMLConfig(t)) THEN pluginConfig
                                     ELSE LoadPluginsYAMLConfig(t).config
       /\ coreConfig' # coreConfig => coreConfig' \in CoreConfigs
       /\ pluginConfig' # pluginConfig => pluginConfig' \in PluginConfigs]_vars

\* both configs are loaded and a request has been answered with them
C33_Witness ==
    /\ coreConfig \in CoreConfigs
    /\ pluginConfig \in PluginConfigs
    /\ pluginConfig.repos # {}
    /\ \E r \in Requests : req[r].pc = "done" /\ req[r].external > 0

RECURSIVE Concat(_)
\* the items of a sequence of answers, one after the other
Concat(rs) == IF rs = <<>> THEN <<>> ELSE Head(rs).items \o Concat(Tail(rs))

\* the provider's answer i allows the request of the page after it
PageFollows(i) == ~requests[i].resp.nil /\ i + 1 <= requests[i].resp.last

C34_WitnessNoResponse ==
    /\ list.fn = "ListReviews"
    /\ list.pc = "returned"
    /\ ~returned.err
    /\ requests[Len(requests)].resp = NoResponse
    /\ returned.value = <<1>>

\* C35: ListAllPullRequestsForFullNameRepo terminates, also when the provider
\* answers without a response and without an error
C35_ListAllTerminates ==
    (list.fn = "ListAllPullRequestsForFullNameRepo" /\ list.pc = "loop")
        ~> (list.pc = "returned")

\* the provider has answered every call without a response and without an error,
\* and the listing is still in its loop
C35_NoResponseLoops ==
    /\ list.fn = "ListAllPullRequestsForFullNameRepo"
    /\ list.pc = "loop"
    /\ Len(requests) = MaxRequests
    /\ list.page > MaxLast + 1
    /\ \A i \in 1..Len(requests) : requests[i].resp = NoResponse /\ ~requests[i].err

\* Merge has added every record of the other history
Merged == hmerge.started /\ \A k \in PoolKeys : hmerge.rest[k] = <<>>

FromOther(r) == r.from = "other"

\* C36: after h.Merge(other) the records that came from other are in h's snapshot
\* of each key in the order they have in other's snapshot, most recent first
C36_MergeKeepsOrder ==
    (Merged /\ ~hcrashed) =>
        \A k \in PoolKeys :
            hother[k].present =>
                SelectSeq(toSlice(hlogs[k]), FromOther)
                    = SelectSeq(toSlice(hother[k]), LAMBDA r : r \in Held(hlogs[k]))

\* the times of a snapshot do not increase from one record to the next
NewestFirst(slice) == \A i \in 1..(Len(slice) - 1) : slice[i].time >= slice[i + 1].time

\* C37: while only Record calls add records, every snapshot AllRecords returns
\* lists the records of a key with non-increasing time, and the log of a key holds
\* the most recent records added, none lost and none half written
C37_SnapshotsByTime ==
    ~hmerge.started =>
        \A k \in PoolKeys :
            /\ NewestFirst(hsnap[k])
            /\ (hlimit >= 1 /\ hlogs[k].present) =>
                   toSlice(hlogs[k]) = Newest(hadded[k], Min(Len(hadded[k]), hlimit))

\* caller g takes a step of its Record call
RecordStep(g) == hcalls'[g] # hcalls[g]

\* C38: a Record call changes no log but the one of its pool key, and the targets
\* list of the caller is after the call as the caller passed it
C38_RecordFrame ==
    [][\A g \in Callers :
          RecordStep(g) =>
              /\ \A k \in PoolKeys \ {hcalls[g].poolKey} : hlogs'[k] = hlogs[k]
              /\ hcalls'[g].targets = hcalls'[g].passed]_vars

\* the activity record handed to ToLighthouseJob has the branch Launch derived for
\* the job spec, and both have run
ListsLaunched ==
    /\ jout.done
    /\ ~jout.panicked
    /\ jjob.done
    /\ jact.gitBranch = jout.branch
    /\ jspec.type \in {"presubmit", "postsubmit", "batch"}

\* C39: the Job ToLighthouseJob makes of an activity with the branch Launch derived
\* for a presubmit, postsubmit or batch job has the type and the base ref of that
\* job and, for a presubmit job, its first pull number
C39_BranchRoundTrip ==
    ListsLaunched =>
        /\ jjob.type = jspec.type
        /\ jjob.refs.baseRef = jspec.refs.baseRef
        /\ (jspec.type = "presubmit" /\ jspec.refs.pulls # <<>>) =>
               /\ jjob.refs.pulls # <<>>
               /\ jjob.refs.pulls[1].number = jspec.refs.pulls[1].number

\* a postsubmit job on a release branch comes back as a presubmit job on master
C39_PostsubmitOnReleaseBranch ==
    /\ ListsLaunched
    /\ jspec.type = "postsubmit"
    /\ jspec.refs.baseRef = "release"
    /\ jjob.type = "presubmit"
    /\ jjob.refs.baseRef = "master"

\* a presubmit job on master comes back with its type, base ref and pull number
C39_PresubmitOnMaster ==
    /\ ListsLaunched
    /\ jspec.type = "presubmit"
    /\ jspec.refs.baseRef = "master"
    /\ jspec.refs.pulls # <<>>
    /\ jjob.type = "presubmit"
    /\ jjob.refs.baseRef = "master"
    /\ jjob.refs.pulls[1].number = jspec.refs.pulls[1].number

\* the static description of an SCM state
StaticText(state) ==
    CASE state = "success" -> "Pipeline successful"
      [] state = "failure" -> "Pipeline failed"
      [] state = "error" -> "Error executing pipeline"
      [] state = "running" -> "Pipeline running"

NamesStages(desc) == HasPrefix(desc, "Pipeline running stage(s): ")

\* C40 as stated: a status posted with state success, failure or error carries
\* the static text of that state, and a description that names running stages is
\* posted with state running only
C40_TerminalStateStaticText ==
    (dout.done /\ dout.report.posted) =>
        /\ dout.report.state \in {"success", "failure", "error"} =>
               dout.report.desc = StaticText(dout.report.state)
        /\ NamesStages(dout.report.desc) => dout.report.state = "running"

\* C40 as the code has it: the description posted names the running stages
\* exactly when the activity record lists running stages and the git kind is not
\* gitlab, whatever the state; otherwise it is the static text of the state
C40_StagesWhateverTheState ==
    (dout.done /\ dout.report.posted) =>
        /\ dout.report.state \in {"success", "failure", "error", "running"}
        /\ NamesStages(dout.report.desc) <=> (dact.stages # <<>> /\ dkind # "gitlab")
        /\ ~NamesStages(dout.report.desc) =>
               dout.report.desc = StaticText(dout.report.state)

\* a status posted with state success whose description names a running stage
C40_Witness ==
    /\ dout.done
    /\ dout.report.posted
    /\ dout.report.state = "success"
    /\ dout.report.desc = "Pipeline running stage(s): build"

====
